---- MODULE Spec2Model ----
(***************************************************************************)
(* The reroute loops of Final2.py and FinalnoTLS.py (SUMO/TraCI adaptive   *)
(* replanning).  Simulated time is an integer number of seconds.  Segment  *)
(* and lane ids are sequences of one-character strings, so that the id     *)
(* arithmetic of the code (split at "_", "-" prefix, ":" prefix) is        *)
(* computed, not assumed.                                                  *)
(***************************************************************************)
EXTENDS Integers, Sequences, FiniteSets, TLC

VARIABLES prog, dt, t, ticks, pc, vstate, todo, arrived_ids,
          last_reroute, invalid_count, cooldown_until, keys,
          edge_graph_cache, ev, prev_attempt,
          EDGE_BUF, es,
          tls_defs, tls_linkmap, cost_ev,
          dj,
          stats,
          closed,
          run,
          frame

\* the state of the reroute loops
vars_loop == <<prog, dt, t, ticks, pc, vstate, todo, arrived_ids,
               last_reroute, invalid_count, cooldown_until, keys,
               edge_graph_cache, ev, prev_attempt>>
\* the state of the condition sampler of FinalnoTLS.py
vars_sampler == <<EDGE_BUF, es>>

\* the signal caches of Final2.py and the latest use of its cost model
vars_cost == <<tls_defs, tls_linkmap, cost_ev>>
\* the Dijkstra object of dijkstra.py
vars_dijkstra == <<dj>>
\* the trip statistics of Final2.py
vars_stats == <<stats>>
\* the lanes that are closed to every class in the simulator now
vars_world == <<closed>>
\* the state of run_simulation of run_dijkstra.py
vars_run == <<run>>
\* the call of tls_delay_seconds that is under way
vars_frame == <<frame>>
\* what the reroute loops of this model leave alone
vars_functions ==
  <<vars_sampler, vars_cost, vars_dijkstra, vars_stats, vars_world, vars_run,
    vars_frame>>

vars == <<vars_loop, vars_functions>>

----------------------------------------------------------------------------
(* Bounds of the model                                                     *)
MaxTicks == 12
MaxFaults == 1

(* Program parameters                                                      *)
REROUTE_PERIOD == 10
REROUTE_PERIOD_noTLS == 15
NEAR_JUNCTION_SKIP_DIST == 120
NEAR_JUNCTION_SKIP_DIST_noTLS == 0
INVALID_THRESHOLD == 2
COOLDOWN_SECONDS == 45
NEVER == 0 - 1000000000

Programs == {"Final2", "FinalnoTLS"}
StepLengths == {1, 5}
Agents == {"v1", "v2"}
\* the agents of the route file
Fleet == {"v1"}

----------------------------------------------------------------------------
(* The simulator's network, as its queries report it                       *)
eA == <<"a">>
eNegA == <<"-", "a">>
eB == <<"b">>
eBX == <<"b", "_", "x">>
eC == <<"c">>
eJ == <<":", "j">>
eZ == <<"z">>
NoId == <<>>

LaneId(e, i) == e \o <<"_", i>>

EdgeIDList == {eA, eNegA, eB, eBX, eC, eJ}

\* every lane of the network: its id, the segment it belongs to, the lanes
\* its links lead to, and its class permissions
NetLanes ==
  { [id |-> LaneId(eA, "0"), edge |-> eA,
     links |-> {LaneId(eNegA, "0"), LaneId(eC, "0")}, allowed |-> {}, disallowed |-> {}],
    [id |-> LaneId(eA, "1"), edge |-> eA,
     links |-> {LaneId(eBX, "0")}, allowed |-> {}, disallowed |-> {}],
    [id |-> LaneId(eNegA, "0"), edge |-> eNegA,
     links |-> {}, allowed |-> {}, disallowed |-> {"passenger"}],
    [id |-> LaneId(eB, "0"), edge |-> eB,
     links |-> {LaneId(eC, "0")}, allowed |-> {}, disallowed |-> {}],
    [id |-> LaneId(eB, "1"), edge |-> eB,
     links |-> {}, allowed |-> {}, disallowed |-> {}],
    [id |-> LaneId(eBX, "0"), edge |-> eBX,
     links |-> {}, allowed |-> {"passenger"}, disallowed |-> {}],
    [id |-> LaneId(eC, "0"), edge |-> eC,
     links |-> {}, allowed |-> {}, disallowed |-> {}],
    [id |-> LaneId(eJ, "0"), edge |-> eJ,
     links |-> {LaneId(eB, "0")}, allowed |-> {}, disallowed |-> {}] }

LaneIDList == {l.id : l \in NetLanes}
LaneRec(lane_id) == CHOOSE l \in NetLanes : l.id = lane_id

\* the class of each agent's type (None is modelled as "")
VehicleClassOf(vid) == IF vid = "v1" THEN "passenger" ELSE "bus"

----------------------------------------------------------------------------
(* id helpers                                                              *)
RECURSIVE split0(_)
\* s.split("_")[0]
split0(s) ==
  IF s = <<>> THEN <<>>
  ELSE IF Head(s) = "_" THEN <<>>
  ELSE <<Head(s)>> \o split0(Tail(s))

\* s.startswith(":")
startswith_colon(s) == s # <<>> /\ Head(s) = ":"

\* not eid or eid.startswith(":")
is_pseudo(eid) == eid = NoId \/ startswith_colon(eid)

is_uturn_pair(a, b) == (a = <<"-">> \o b) \/ (b = <<"-">> \o a)

----------------------------------------------------------------------------
(* Queries of the simulator.  faults is the set of queries that raise in   *)
(* the evaluation at hand.                                                 *)
Faults == {"getLaneID", "getRoadID", "getRoute", "getTypeID", "getLaneIDs",
           "planner", "setRoute", "rerouteTraveltime"}

\* the lanes lane_id links to; traci.lane.getLinks raises for a lane the
\* simulator does not know, and the result is then []
_safe_iter_out_lanes(lane_id) ==
  IF lane_id \notin LaneIDList THEN {}
  ELSE {to_lane \in LaneRec(lane_id).links : to_lane # NoId}

_lane_allows_class(lane_id, vehicle_class) ==
  IF vehicle_class = "" THEN TRUE
  ELSE IF lane_id \notin LaneIDList THEN TRUE
  ELSE LET allowed == LaneRec(lane_id).allowed
           disallowed == LaneRec(lane_id).disallowed
       IN  IF vehicle_class \in disallowed THEN FALSE
           ELSE IF allowed # {} /\ vehicle_class \notin allowed THEN FALSE
           ELSE TRUE

\* None is ""
get_vehicle_class(veh_id, faults) ==
  IF "getTypeID" \in faults THEN "" ELSE VehicleClassOf(veh_id)

CacheKey(veh_class) == IF veh_class = "" THEN "_ANY_" ELSE veh_class

\* lane is the lane the simulator reports for the agent
next_edges_allowed_from_current_lane(lane, faults) ==
  IF "getLaneID" \in faults THEN {}
  ELSE {split0(ln) : ln \in _safe_iter_out_lanes(lane)}

lane_has_link_to_edge(lane_id, edge_id) ==
  \E toLane \in _safe_iter_out_lanes(lane_id) : split0(toLane) = edge_id

\* traci.edge.getLaneIDs(a): the lanes of segment a
getLaneIDs(a) == {l.id : l \in {x \in NetLanes : x.edge = a}}

has_edge_connection_any_lane(a, b, faults) ==
  IF "getLaneIDs" \in faults \/ a \notin EdgeIDList THEN FALSE
  ELSE \E lane_id \in getLaneIDs(a) : lane_has_link_to_edge(lane_id, b)

\* build_edge_graph_from_traci that makes a node of every segment reported
build_edge_graph_all_segments(vehicle_class) ==
  [nodes |-> EdgeIDList,
   arcs |-> {<<split0(p[1]), split0(p[2])>> :
               p \in {q \in LaneIDList \X LaneIDList :
                        /\ _lane_allows_class(q[1], vehicle_class)
                        /\ q[2] \in _safe_iter_out_lanes(q[1])
                        /\ _lane_allows_class(q[2], vehicle_class)}}]

\* the graph is a record of its node set and its arc set
build_edge_graph_from_traci(vehicle_class) ==
  LET nodes == {eid \in EdgeIDList : ~is_pseudo(eid)}
      arcs  == {<<split0(lane_id), split0(toLane)>> :
                  <<lane_id, toLane>> \in
                    {p \in LaneIDList \X LaneIDList :
                       /\ ~is_pseudo(split0(p[1]))
                       /\ split0(p[1]) \in nodes
                       /\ _lane_allows_class(p[1], vehicle_class)
                       /\ p[2] \in _safe_iter_out_lanes(p[1])
                       /\ ~is_pseudo(split0(p[2]))
                       /\ split0(p[2]) \in nodes
                       /\ _lane_allows_class(p[2], vehicle_class)}}
  IN  [nodes |-> nodes, arcs |-> arcs]

\* the lanes an operator of the simulation may close to every class, and
\* reopen, while the program runs
ClosableLanes == {LaneId(eB, "0")}
RoadClasses == {"passenger", "bus"}

\* traci.lane.getDisallowed(lane_id) while the lanes of closed_now are closed
getDisallowed(lane_id, closed_now) ==
  IF lane_id \in closed_now THEN RoadClasses ELSE LaneRec(lane_id).disallowed

\* _lane_allows_class as the simulator answers it while the lanes of
\* closed_now are closed
_lane_allows_class_now(lane_id, vehicle_class, closed_now) ==
  IF vehicle_class = "" THEN TRUE
  ELSE IF lane_id \notin LaneIDList THEN TRUE
  ELSE LET allowed == LaneRec(lane_id).allowed
           disallowed == getDisallowed(lane_id, closed_now)
       IN  IF vehicle_class \in disallowed THEN FALSE
           ELSE IF allowed # {} /\ vehicle_class \notin allowed THEN FALSE
           ELSE TRUE

\* build_edge_graph_from_traci called while the lanes of closed_now are
\* closed
build_edge_graph_now(vehicle_class, closed_now) ==
  LET nodes == {eid \in EdgeIDList : ~is_pseudo(eid)}
      arcs  == {<<split0(lane_id), split0(toLane)>> :
                  <<lane_id, toLane>> \in
                    {p \in LaneIDList \X LaneIDList :
                       /\ ~is_pseudo(split0(p[1]))
                       /\ split0(p[1]) \in nodes
                       /\ _lane_allows_class_now(p[1], vehicle_class, closed_now)
                       /\ p[2] \in _safe_iter_out_lanes(p[1])
                       /\ ~is_pseudo(split0(p[2]))
                       /\ split0(p[2]) \in nodes
                       /\ _lane_allows_class_now(p[2], vehicle_class, closed_now)}}
  IN  [nodes |-> nodes, arcs |-> arcs]

----------------------------------------------------------------------------
(* The planner: nx.shortest_path(G, source, target, weight)                *)
Weights == {1, 3}

RECURSIVE SimplePaths(_, _, _)
\* the simple paths of G that start at s and have at most n arcs
SimplePaths(G, s, n) ==
  IF n = 0 THEN {<<s>>}
  ELSE LET P == SimplePaths(G, s, n - 1)
       IN  P \cup {Append(p, v) : <<p, v>> \in
                     {pv \in P \X G.nodes :
                        /\ <<pv[1][Len(pv[1])], pv[2]>> \in G.arcs
                        /\ \A i \in 1..Len(pv[1]) : pv[1][i] # pv[2]}}

RECURSIVE PathCost(_, _)
PathCost(p, w) ==
  IF Len(p) < 2 THEN 0
  ELSE w[<<p[1], p[2]>>] + PathCost(Tail(p), w)

\* the paths nx.shortest_path may return under weights w: the minimum-cost
\* paths from source to target; {} stands for NetworkXNoPath
shortest_path(G, source, target, w) ==
  LET cand == {p \in SimplePaths(G, source, Cardinality(G.nodes) - 1) :
                 p[Len(p)] = target}
  IN  {p \in cand : \A o \in cand : PathCost(p, w) <= PathCost(o, w)}

\* the class graphs of the network, and for each of them the results of the
\* planner under every assignment of weights to its arcs
Classes == {"passenger", "bus", ""}
GraphOfClass == [c \in Classes |-> build_edge_graph_from_traci(c)]
ClassGraphs == {GraphOfClass[c] : c \in Classes}
PlannerResults ==
  [G \in ClassGraphs |->
     [source \in G.nodes |->
        [target \in G.nodes |->
           {shortest_path(G, source, target, w) : w \in [G.arcs -> Weights]}]]]

----------------------------------------------------------------------------
(* What the simulator may report for an agent in one evaluation            *)
\* the lane the agent is on and lane_len - lane_pos
AgentPositions ==
  { <<LaneId(eA, "0"), 200>>, <<LaneId(eA, "0"), 50>>, <<LaneId(eA, "1"), 200>>,
    <<LaneId(eB, "0"), 200>>, <<LaneId(eB, "1"), 200>>, <<LaneId(eC, "0"), 200>>,
    <<LaneId(eJ, "0"), 200>> }
\* traci.vehicle.getRoute: only its last segment is read
Routes == {<<>>} \cup {<<e>> : e \in {eNegA, eB, eBX, eC, eJ, eZ}}
RECURSIVE FaultSetsUpTo(_)
FaultSetsUpTo(k) ==
  IF k = 0 THEN {{}}
  ELSE LET S == FaultSetsUpTo(k - 1)
       IN  S \cup {X \cup {f} : X \in S, f \in Faults}
\* at most MaxFaults queries fail in one evaluation
FaultSets == FaultSetsUpTo(MaxFaults)
Queries ==
  {[lane |-> p[1], remain |-> p[2], route |-> r, faults |-> F] :
     p \in AgentPositions, r \in Routes, F \in FaultSets}

\* traci.vehicle.getRoadID: the segment of the lane the agent is on
getRoadID(q) == LaneRec(q.lane).edge

\* the segments really reachable through a link of lane_id
TrueNextEdges(lane_id) == {LaneRec(l).edge : l \in LaneRec(lane_id).links}
\* some lane of segment a really links to a lane of segment b
TrulyConnected(a, b) ==
  \E l \in NetLanes : l.edge = a /\ b \in TrueNextEdges(l.id)

----------------------------------------------------------------------------
(* Numbers.  A float is modelled by the exact rational <<n, d>>, d > 0, in   *)
(* lowest terms; the rounding of floating-point arithmetic is not modelled. *)
RECURSIVE GCD(_, _)
GCD(a, b) == IF b = 0 THEN a ELSE GCD(b, a % b)
Abs(n) == IF n < 0 THEN 0 - n ELSE n
Rat(n, d) ==
  LET g == GCD(Abs(n), Abs(d))
      sg == IF d < 0 THEN 0 - 1 ELSE 1
  IN  <<(sg * n) \div g, (sg * d) \div g>>
Zero == <<0, 1>>
One == <<1, 1>>
RAdd(a, b) == Rat(a[1] * b[2] + b[1] * a[2], a[2] * b[2])
RMul(a, b) == Rat(a[1] * b[1], a[2] * b[2])
RDiv(a, b) == Rat(a[1] * b[2], a[2] * b[1])
RLess(a, b) == a[1] * b[2] < b[1] * a[2]
RLeq(a, b) == a[1] * b[2] <= b[1] * a[2]
RMax(a, b) == IF RLess(a, b) THEN b ELSE a
RMin(a, b) == IF RLess(b, a) THEN b ELSE a
RECURSIVE RSum(_)
\* sum(seq)
RSum(seq) == IF seq = <<>> THEN Zero ELSE RAdd(Head(seq), RSum(Tail(seq)))

----------------------------------------------------------------------------
(* The condition sampler of FinalnoTLS.py: expected_speed and EDGE_BUF      *)
WINDOW_N == 10
MIN_SPEED_FRACTION == <<3, 10>>
OCCUPANCY_FREE_THRESH_noTLS == <<1, 10>>
SMOOTHING_MIN_SPEED == <<3, 2>>
\* the floor max(..., 0.1) of a speed
SpeedFloor == <<1, 10>>

\* what a probe of the simulator may hand back: a number, NaN, a value that
\* is no int or float (None, a string), or an exception
Num(v) == [kind |-> "num", v |-> v]
NotNum(kind) == [kind |-> kind, v |-> Zero]
\* the readings of one call for segment e, its occupancy and its mean
\* speed: segment c is always empty, segment b is empty or jammed and its
\* probes may misbehave
SamplerEdges == {eB, eC}
SamplerReadings(e) ==
  IF e = eC THEN {[occ |-> Num(Zero), speed |-> Num(<<8, 1>>)]}
  ELSE {[occ |-> o, speed |-> Num(<<8, 1>>)] :
          o \in {Num(<<0 - 1, 2>>), Num(Zero), NotNum("nan"), NotNum("text"),
                 NotNum("raise")}}
       \cup {[occ |-> o, speed |-> sp] :
               o \in {Num(One), Num(<<5, 2>>)}, sp \in {Num(Zero), NotNum("raise")}}
SpeedLimits == {<<10, 1>>}

\* clamp_occ without the clamp to [0, 1]
clamp_occ_no_clamp(raw) == IF raw.kind # "num" THEN Zero ELSE raw.v

\* FinalnoTLS.py 206-217: the occupancy that is pushed
clamp_occ(raw) ==
  IF raw.kind # "num" THEN Zero
  ELSE RMax(Zero, RMin(One, raw.v))

\* FinalnoTLS.py 210-220: the mean speed that is pushed
clean_speed(raw, speed_limit) ==
  IF raw.kind # "num" \/ RLeq(raw.v, Zero)
    THEN RMul(speed_limit, MIN_SPEED_FRACTION)
  ELSE raw.v

\* append that drops the new sample when the deque is full
deque_append_drop_new(dq, x) == IF Len(dq) >= WINDOW_N THEN dq ELSE Append(dq, x)

\* deque(maxlen=WINDOW_N).append(x)
deque_append(dq, x) ==
  IF Len(dq) >= WINDOW_N THEN Append(Tail(dq), x) ELSE Append(dq, x)

\* sum(dq) / len(dq)
mean(dq) == RDiv(RSum(dq), <<Len(dq), 1>>)

\* EDGE_BUF.setdefault(out_edge, {"speed": deque(), "occ": deque()})
setdefault(buf, out_edge) ==
  IF out_edge \in DOMAIN buf THEN buf[out_edge]
  ELSE [speed |-> <<>>, occ |-> <<>>]

\* FinalnoTLS.py 205-239: the new EDGE_BUF and the pair returned
expected_speed(buf, out_edge, speed_limit, raw_occ, raw_speed) ==
  LET old == setdefault(buf, out_edge)
      new == [speed |-> deque_append(old.speed, clean_speed(raw_speed, speed_limit)),
              occ   |-> deque_append(old.occ, clamp_occ(raw_occ))]
      sm_speed == mean(new.speed)
      sm_occ == mean(new.occ)
      use_speed == IF RLess(sm_occ, OCCUPANCY_FREE_THRESH_noTLS)
                     THEN RMax(speed_limit, SpeedFloor)
                   ELSE IF RLess(SMOOTHING_MIN_SPEED, sm_speed) THEN sm_speed
                   ELSE RMax(RMul(speed_limit, MIN_SPEED_FRACTION), SpeedFloor)
  IN  [buf |-> [e \in DOMAIN buf \cup {out_edge} |->
                  IF e = out_edge THEN new ELSE buf[e]],
       use_speed |-> use_speed, sm_occ |-> sm_occ]

DENSITY_ALPHA_noTLS == <<3, 2>>
\* the length every node of the class graphs carries
NodeLength == <<100, 1>>

RECURSIVE weigh_nodes(_, _, _, _, _, _)
\* FinalnoTLS.py 334-340: the loop over the nodes left in todo_nodes.
\* readings gives the last-step occupancy and mean speed of every segment
\* in this tick; per_out_edge_cost is the dict built so far, last the
\* latest call of expected_speed
weigh_nodes(buf, todo_nodes, speed_limit, readings, per_out_edge_cost, last) ==
  IF todo_nodes = {} THEN [buf |-> buf, cost |-> per_out_edge_cost, last |-> last]
  ELSE LET v == CHOOSE x \in todo_nodes : TRUE
           r == expected_speed(buf, v, speed_limit, readings[v].occ,
                               readings[v].speed)
           base_tt == RDiv(NodeLength, RMax(r.use_speed, SpeedFloor))
           cost == RMul(base_tt, RAdd(One, RMul(DENSITY_ALPHA_noTLS, r.sm_occ)))
       IN  weigh_nodes(r.buf, todo_nodes \ {v}, speed_limit, readings,
                       [k \in DOMAIN per_out_edge_cost \cup {v} |->
                          IF k = v THEN cost ELSE per_out_edge_cost[k]],
                       [edge |-> v, raw |-> readings[v].occ,
                        occ |-> clamp_occ(readings[v].occ),
                        use_speed |-> r.use_speed, sm_occ |-> r.sm_occ,
                        n |-> last.n + 1, w |-> last.w])

\* FinalnoTLS.py 332-342: compute_edge_weights_for_class(cls, G); the cost
\* of a node is the weight "w" of every arc that enters it
compute_edge_weights_for_class(buf, G, speed_limit, readings, last) ==
  weigh_nodes(buf, G.nodes, speed_limit, readings, <<>>, last)

RECURSIVE refresh_weights(_, _, _, _, _, _, _)
\* FinalnoTLS.py 348-352: the loop over step_classes, in the order the set
\* yields its keys; cache has a graph for every key
refresh_weights(buf, w, cache, key_order, speed_limit, readings, last) ==
  IF key_order = <<>> THEN [buf |-> buf, w |-> w, last |-> last]
  ELSE LET cls == Head(key_order)
           r == compute_edge_weights_for_class(buf, cache[cls], speed_limit,
                                               readings, last)
       IN  refresh_weights(r.buf,
                           [k \in DOMAIN w \cup {cls} |->
                              IF k = cls THEN r.cost ELSE w[k]],
                           cache, Tail(key_order), speed_limit, readings, r.last)

----------------------------------------------------------------------------
(* The signal phase oracle of Final2.py                                     *)
TLS_LOOKAHEAD_LIMIT == <<300, 1>>
Secs(n) == <<n, 1>>

\* the programs getCompleteRedYellowGreenDefinition may report first for the
\* controller: sequences of phases <<state, duration>>
ProgramCycle == << <<<<"G", "r">>, Secs(30)>>, <<<<"y", "r">>, Secs(5)>>,
                   <<<<"r", "G">>, Secs(30)>>, <<<<"r", "g">>, Secs(10)>>,
                   <<<<"r", "y">>, Secs(5)>> >>
ProgramNeverGreen == << <<<<"r", "r">>, Secs(200)>>, <<<<"r", "y">>, Secs(150)>> >>
ProgramLateGreen == << <<<<"G", "r">>, Secs(5)>>, <<<<"r", "r">>, Secs(150)>>,
                       <<<<"r", "r">>, Secs(160)>>, <<<<"r", "g">>, Secs(5)>> >>
ProgramZeroCycle == << <<<<"r", "r">>, Secs(0)>> >>
\* a program with a phase of no duration, never green at either index
ProgramZeroPhase == << <<<<"r", "r">>, Secs(0)>>, <<<<"r", "y">>, Secs(150)>> >>

\* getControlledLinks of the controller: for each signal index the
\* <<in_lane, out_lane>> pairs it controls
ControlledLinks == << {<<LaneId(eA, "0"), LaneId(eC, "0")>>},
                      {<<LaneId(eA, "1"), LaneId(eBX, "0")>>} >>

\* what the simulator may report for its traffic lights at a refresh: the
\* ids, and for each id its programs (none, or the one that comes first) and
\* its controlled links
TlsWorlds ==
  {[ids |-> {"J"}, progs |-> <<p>>, links |-> ControlledLinks] :
     p \in {ProgramCycle, ProgramNeverGreen, ProgramLateGreen, ProgramZeroCycle}}
  \cup {[ids |-> {"J"}, progs |-> <<>>, links |-> ControlledLinks]}

RECURSIVE SumDur(_)
\* sum(d for _, d in phases)
SumDur(phases) ==
  IF phases = <<>> THEN Zero ELSE RAdd(Head(phases)[2], SumDur(Tail(phases)))

\* Final2.py 123-130
cache_tls_definitions(w) ==
  [tls_id \in {x \in w.ids : w.progs # <<>>} |->
     [phases |-> w.progs[1], cycle |-> SumDur(w.progs[1])]]

\* Final2.py 132-147: sig_idx counts from 0; a pair of segments controlled
\* by several indices keeps the last one enumerated
build_tls_linkmap(w) ==
  [tls_id \in w.ids |->
     LET keyed(i) == {<<split0(l[1]), split0(l[2])>> : l \in w.links[i]}
         pairs == UNION {keyed(i) : i \in 1..Len(w.links)}
     IN  [k \in pairs |->
            (CHOOSE i \in 1..Len(w.links) :
               /\ k \in keyed(i)
               /\ \A j \in 1..Len(w.links) : k \in keyed(j) => j <= i) - 1]]

\* _is_green that knows only the priority green "G"
_is_green_capital_only(state, idx) == idx < Len(state) /\ state[idx + 1] = "G"

\* Final2.py 149
_is_green(state, idx) == idx < Len(state) /\ state[idx + 1] \in {"G", "g"}

\* the result of a call: a number, or an exception that leaves the call
Returned(v) == [kind |-> "num", v |-> v]
Raised == [kind |-> "raise", v |-> Zero]

\* scan_loop that returns the delay accumulated when it gives up
RECURSIVE scan_loop_keeps_delay(_, _, _, _, _)
scan_loop_keeps_delay(ph, idx, acc, k, seen) ==
  IF ~RLess(seen, TLS_LOOKAHEAD_LIMIT) THEN acc
  ELSE IF _is_green(ph[k + 1][1], idx) THEN RMax(Zero, acc)
  ELSE scan_loop_keeps_delay(ph, idx, RAdd(acc, ph[k + 1][2]),
                             (k + 1) % Len(ph), RAdd(seen, ph[k + 1][2]))

RECURSIVE scan_loop(_, _, _, _, _)
\* Final2.py 162-166
scan_loop(phases, sig_index, delay, scan, scanned) ==
  IF ~RLess(scanned, TLS_LOOKAHEAD_LIMIT) THEN Zero
  ELSE IF _is_green(phases[scan + 1][1], sig_index) THEN RMax(Zero, delay)
  ELSE scan_loop(phases, sig_index, RAdd(delay, phases[scan + 1][2]),
                 (scan + 1) % Len(phases), RAdd(scanned, phases[scan + 1][2]))

\* tls_delay_seconds whose scan starts from a delay of 0, without the
\* remaining time of the current phase
tls_delay_seconds_scan_only(tls_id, sig_index, defs, probe) ==
  IF tls_id \notin DOMAIN defs THEN Returned(Zero)
  ELSE IF RLeq(defs[tls_id].cycle, Zero) THEN Returned(Zero)
  ELSE IF ~probe.ok THEN Returned(Zero)
  ELSE LET phases == defs[tls_id].phases
       IN  IF probe.cur >= Len(phases) THEN Raised
           ELSE IF _is_green(phases[probe.cur + 1][1], sig_index) THEN Returned(Zero)
           ELSE Returned(scan_loop(phases, sig_index, Zero,
                                   (probe.cur + 1) % Len(phases), Zero))

\* Final2.py 151-166.  probe is what the controller reports now: ok (the
\* queries getPhase, getPhaseDuration, getPhaseElapsed succeed), cur, and
\* remain = getPhaseDuration - getPhaseElapsed.  phases[cur] raises
\* IndexError when the cached program has no phase cur.
tls_delay_seconds(tls_id, sig_index, defs, probe) ==
  IF tls_id \notin DOMAIN defs THEN Returned(Zero)
  ELSE IF RLeq(defs[tls_id].cycle, Zero) THEN Returned(Zero)
  ELSE IF ~probe.ok THEN Returned(Zero)
  ELSE LET phases == defs[tls_id].phases
       IN  IF probe.cur >= Len(phases) THEN Raised
           ELSE IF _is_green(phases[probe.cur + 1][1], sig_index) THEN Returned(Zero)
           ELSE Returned(scan_loop(phases, sig_index, RMax(Zero, probe.remain),
                                   (probe.cur + 1) % Len(phases), Zero))

\* the iterations of a call are counted up to MaxScanIters
MaxScanIters == 8
count_up(n) == IF n < MaxScanIters THEN n + 1 ELSE n

\* enter_scan without the test of the cycle
enter_scan_any_cycle(fr, tls_id) ==
  IF tls_id \notin DOMAIN fr.defs
    THEN [fr EXCEPT !.pc = "returned", !.result = Returned(Zero)]
  ELSE IF ~fr.probe.ok
    THEN [fr EXCEPT !.pc = "returned", !.result = Returned(Zero)]
  ELSE LET phases == fr.defs[tls_id].phases
       IN  IF fr.probe.cur >= Len(phases) THEN [fr EXCEPT !.pc = "raised", !.result = Raised]
           ELSE IF _is_green(phases[fr.probe.cur + 1][1], fr.sig_index)
             THEN [fr EXCEPT !.pc = "returned", !.result = Returned(Zero)]
           ELSE [fr EXCEPT !.pc = "loop",
                           !.delay = RMax(Zero, fr.probe.remain),
                           !.scan = (fr.probe.cur + 1) % Len(phases),
                           !.scanned = Zero]

\* Final2.py 152-161: tls_delay_seconds up to its loop, as a step of the
\* call fr
enter_scan(fr, tls_id) ==
  IF tls_id \notin DOMAIN fr.defs
    THEN [fr EXCEPT !.pc = "returned", !.result = Returned(Zero)]
  ELSE IF RLeq(fr.defs[tls_id].cycle, Zero)
    THEN [fr EXCEPT !.pc = "returned", !.result = Returned(Zero)]
  ELSE IF ~fr.probe.ok
    THEN [fr EXCEPT !.pc = "returned", !.result = Returned(Zero)]
  ELSE LET phases == fr.defs[tls_id].phases
       IN  IF fr.probe.cur >= Len(phases) THEN [fr EXCEPT !.pc = "raised", !.result = Raised]
           ELSE IF _is_green(phases[fr.probe.cur + 1][1], fr.sig_index)
             THEN [fr EXCEPT !.pc = "returned", !.result = Returned(Zero)]
           ELSE [fr EXCEPT !.pc = "loop",
                           !.delay = RMax(Zero, fr.probe.remain),
                           !.scan = (fr.probe.cur + 1) % Len(phases),
                           !.scanned = Zero]

\* Final2.py 162-166: the test of the while loop and one iteration of its
\* body, as a step of the call fr
scan_iteration(fr, tls_id) ==
  LET phases == fr.defs[tls_id].phases
  IN  IF ~RLess(fr.scanned, TLS_LOOKAHEAD_LIMIT)
        THEN [fr EXCEPT !.pc = "returned", !.result = Returned(Zero)]
      ELSE IF _is_green(phases[fr.scan + 1][1], fr.sig_index)
        THEN [fr EXCEPT !.pc = "returned", !.iters = count_up(fr.iters),
                        !.result = Returned(RMax(Zero, fr.delay))]
      ELSE [fr EXCEPT !.delay = RAdd(fr.delay, phases[fr.scan + 1][2]),
                      !.scanned = RAdd(fr.scanned, phases[fr.scan + 1][2]),
                      !.scan = (fr.scan + 1) % Len(phases),
                      !.iters = count_up(fr.iters)]

\* the controllers whose link map has the movement
GoverningTls(in_edge, out_edge, linkmap) ==
  {tls_id \in DOMAIN linkmap : <<in_edge, out_edge>> \in DOMAIN linkmap[tls_id]}

\* Final2.py 168-173: the first controller of the link map that has the
\* movement decides
expected_tls_delay_for_movement(in_edge, out_edge, defs, linkmap, probe) ==
  LET gov == GoverningTls(in_edge, out_edge, linkmap)
  IN  IF gov = {} THEN Returned(Zero)
      ELSE LET tls_id == CHOOSE x \in gov : TRUE
           IN  tls_delay_seconds(tls_id, linkmap[tls_id][<<in_edge, out_edge>>],
                                 defs, probe)

----------------------------------------------------------------------------
(* The cost model of Final2.py: movement_weight                             *)
DENSITY_ALPHA == <<2, 1>>
OCCUPANCY_FREE_THRESH == <<1, 20>>
GREEN_BIAS == <<1, 1>>
\* the window 0 < tls_del < 10.0 of the green bias
GreenWindow == <<10, 1>>
Half == <<1, 2>>

\* Final2.py 223-228: occ and mean_speed are readings; a failed query is None
use_speed_of(occ, mean_speed, speed_limit) ==
  IF occ.kind = "num" /\ RLess(occ.v, OCCUPANCY_FREE_THRESH)
    THEN RMax(speed_limit, SpeedFloor)
  ELSE IF mean_speed.kind = "num" /\ RLess(SMOOTHING_MIN_SPEED, mean_speed.v)
    THEN mean_speed.v
  ELSE RMax(RMul(speed_limit, MIN_SPEED_FRACTION), SpeedFloor)

\* dens_mult without the occupancy term
dens_mult_flat(occ) == One

\* Final2.py 231
dens_mult(occ) ==
  RAdd(One, RMul(DENSITY_ALPHA, IF occ.kind = "num" THEN occ.v ELSE Zero))

\* Final2.py 235
green_bonus(tls_del) ==
  IF RLess(Zero, tls_del) /\ RLess(tls_del, GreenWindow)
    THEN RMul(<<0 - 1, 1>>, RMul(GREEN_BIAS, Half))
  ELSE Zero

\* Final2.py 206-237.  nd is the node data of out_edge (length, speed_limit),
\* probes the readings of the call: occ, mean_speed, and tls for the
\* controller.  An exception of the signal oracle leaves movement_weight.
movement_weight(in_edge, out_edge, nd, defs, linkmap, probes) ==
  LET use_speed == use_speed_of(probes.occ, probes.mean_speed, nd.speed_limit)
      base_tt == RDiv(nd.length, RMax(use_speed, SpeedFloor))
      tls_del == expected_tls_delay_for_movement(in_edge, out_edge, defs, linkmap,
                                                 probes.tls)
  IN  IF tls_del.kind = "raise" THEN Raised
      ELSE Returned(RAdd(RAdd(RMul(base_tt, dens_mult(probes.occ)), tls_del.v),
                         green_bonus(tls_del.v)))

----------------------------------------------------------------------------
(* dijkstra.py: class Dijkstra.  A graph is a dict of dicts: a function     *)
(* from its keys to functions from neighbours to weights.                   *)
\* math.inf: larger than the cost of every path of the graphs considered
math_inf == 1000000
\* None
NoVertex == ""

\* dijkstra.py 10: the vertices of the graph, as a set
vertices_of(graph) ==
  DOMAIN graph \cup UNION {DOMAIN graph[u] : u \in DOMAIN graph}

\* the orders list(set(...)) may give the vertices
Orders(S) ==
  {o \in [1..Cardinality(S) -> S] : \A i, j \in DOMAIN o : o[i] = o[j] => i = j}

\* dijkstra.py 13-14; start_vertex is among the vertices
initial_labels(vset, start_vertex) ==
  [v \in vset |-> [distance |-> IF v = start_vertex THEN 0 ELSE math_inf,
                   prev |-> NoVertex]]

\* dijkstra.py 30-34: the first vertex of the list, among those not
\* visited, whose distance is least
min_unvisited(vertices, labels, visited) ==
  LET cand == {i \in DOMAIN vertices : vertices[i] \notin visited}
      first == CHOOSE i \in cand :
                 \A j \in cand :
                    \/ labels[vertices[i]].distance < labels[vertices[j]].distance
                    \/ /\ labels[vertices[i]].distance = labels[vertices[j]].distance
                       /\ i <= j
  IN  vertices[first]

\* relax_one that takes the weight of the arc for the distance
relax_one_arc_only(labels, current, neighbor, weight) ==
  IF weight < labels[neighbor].distance
    THEN [labels EXCEPT ![neighbor] = [distance |-> weight, prev |-> current]]
  ELSE labels

\* dijkstra.py 42-44
relax_one(labels, current, neighbor, weight) ==
  LET alt == labels[current].distance + weight
  IN  IF alt < labels[neighbor].distance
        THEN [labels EXCEPT ![neighbor] = [distance |-> alt, prev |-> current]]
      ELSE labels

RECURSIVE relax(_, _, _, _)
\* dijkstra.py 41-44: the loop over the items not yet handled of
\* graph.get(current, {})
relax(graph, labels, current, todo_neighbors) ==
  IF todo_neighbors = {} THEN labels
  ELSE LET neighbor == CHOOSE n \in todo_neighbors : TRUE
       IN  relax(graph,
                 relax_one(labels, current, neighbor, graph[current][neighbor]),
                 current, todo_neighbors \ {neighbor})

RECURSIVE dijkstra_loop(_, _, _, _)
\* dijkstra.py 26-44: the labels when the while loop ends
dijkstra_loop(graph, vertices, labels, visited) ==
  IF Cardinality(visited) >= Len(vertices) THEN labels
  ELSE LET current == min_unvisited(vertices, labels, visited)
       IN  IF labels[current].distance = math_inf THEN labels
           ELSE dijkstra_loop(
                  graph, vertices,
                  relax(graph, labels, current,
                        IF current \in DOMAIN graph THEN DOMAIN graph[current] ELSE {}),
                  visited \cup {current})

RECURSIVE path_back(_, _, _)
\* dijkstra.py 50-54: path.insert(0, vertex) until vertex is None
path_back(labels, vertex, path) ==
  IF vertex = NoVertex THEN path
  ELSE path_back(labels, labels[vertex].prev, <<vertex>> \o path)

\* dijkstra.py 46-54
build_path(labels, start_vertex, vertex) ==
  IF vertex \notin DOMAIN labels \/ labels[vertex].prev = NoVertex
    THEN IF vertex = start_vertex THEN <<vertex>> ELSE <<>>
  ELSE path_back(labels, vertex, <<>>)

----------------------------------------------------------------------------
(* run_dijkstra.py: the travel-time graph and its CSV file.  A file is the  *)
(* sequence of its rows, a row [From, To, AvgTime] of texts; the text of a  *)
(* number is the sequence of its decimal digits.  (str of a float is read   *)
(* back by float() as the same float; whole numbers stand for the floats.)  *)
Digits == <<"0", "1", "2", "3", "4", "5", "6", "7", "8", "9">>
RECURSIVE str(_)
\* run_dijkstra.py 42: csv writes str(avg_time)
str(n) ==
  IF n < 10 THEN <<Digits[n + 1]>>
  ELSE str(n \div 10) \o <<Digits[(n % 10) + 1]>>
\* float(text) raises ValueError for a text that is no number
is_number(text) ==
  text # <<>> /\ \A i \in 1..Len(text) : \E k \in 1..10 : Digits[k] = text[i]
RECURSIVE float(_)
\* run_dijkstra.py 29: float(row["AvgTime"]) of a text that is a number
float(text) ==
  IF text = <<>> THEN 0
  ELSE 10 * float(SubSeq(text, 1, Len(text) - 1))
         + ((CHOOSE k \in 1..10 : Digits[k] = text[Len(text)]) - 1)

\* the ids that start with ":" (internal ids of the network)
InternalIds == {":j"}
RECURSIVE rows_of(_, _)
\* run_dijkstra.py 40-42: a row for every target of every key
rows_of(graph, todo_arcs) ==
  IF todo_arcs = {} THEN <<>>
  ELSE LET arc == CHOOSE x \in todo_arcs : TRUE
       IN  <<[From |-> arc[1], To |-> arc[2],
              AvgTime |-> str(graph[arc[1]][arc[2]])]>>
             \o rows_of(graph, todo_arcs \ {arc})
\* run_dijkstra.py 36-42
save_graph_to_csv(graph) ==
  rows_of(graph, {arc \in (DOMAIN graph) \X vertices_of(graph) :
                    arc[2] \in DOMAIN graph[arc[1]]})

\* load_row that keeps only the first target of a key
load_row_first_target_only(graph, row) ==
  IF row.From \in DOMAIN graph THEN graph
  ELSE [u \in DOMAIN graph \cup {row.From} |->
          [v \in {row.To} |-> float(row.AvgTime)]]

\* run_dijkstra.py 30: graph.setdefault(from_edge, {})[to_edge] = avg_time
load_row(graph, row) ==
  [u \in DOMAIN graph \cup {row.From} |->
     IF u = row.From
       THEN [v \in (IF u \in DOMAIN graph THEN DOMAIN graph[u] ELSE {})
                     \cup {row.To} |->
               IF v = row.To THEN float(row.AvgTime) ELSE graph[u][v]]
     ELSE graph[u]]

RECURSIVE load_rows(_, _)
\* run_dijkstra.py 24-30, 32-33: a row with an internal id is skipped; a
\* text float() does not read ends the loading with what was read so far
load_rows(graph, rows) ==
  IF rows = <<>> THEN graph
  ELSE IF Head(rows).From \in InternalIds \/ Head(rows).To \in InternalIds
    THEN load_rows(graph, Tail(rows))
  ELSE IF ~is_number(Head(rows).AvgTime) THEN graph
  ELSE load_rows(load_row(graph, Head(rows)), Tail(rows))

\* run_dijkstra.py 16-34, for the file that is there
load_graph_from_csv(file) == load_rows(<<>>, file)

\* the network sumolib reads for run_dijkstra.py: every road segment with
\* its two junctions, its length and the highest speed of its lanes
RunNet ==
  { [id |-> "e1", from |-> "J1", to |-> "J2", length |-> Secs(100), speed |-> Secs(20)],
    [id |-> "e2", from |-> "J2", to |-> "J3", length |-> Secs(100), speed |-> Secs(20)],
    [id |-> "e3", from |-> "J1", to |-> "J3", length |-> Secs(300), speed |-> Secs(20)] }
\* net.getNode(j).getOutgoing()
getOutgoing(j) == {e \in RunNet : e.from = j}
\* run_dijkstra.py 139-142; a segment the network does not have is not a key
edge_to_junction ==
  [id \in {e.id : e \in RunNet} |->
     LET e == CHOOSE x \in RunNet : x.id = id IN <<e.from, e.to>>]

\* graph.setdefault(u, {})[v] = x
graph_set(graph, u, v, x) ==
  [j \in DOMAIN graph \cup {u} |->
     IF j = u
       THEN [k \in (IF u \in DOMAIN graph THEN DOMAIN graph[u] ELSE {}) \cup {v} |->
               IF k = v THEN x ELSE graph[u][k]]
     ELSE graph[j]]

\* run_dijkstra.py 54-56
default_time(next_edge) ==
  IF RLess(Zero, next_edge.speed)
    THEN RDiv(next_edge.length, RMul(<<1, 2>>, next_edge.speed))
  ELSE Secs(9999)

RECURSIVE init_defaults(_, _)
\* the loops of lines 45-57 over the pairs (edge, next_edge) left in todo_pairs
init_defaults(graph, todo_pairs) ==
  IF todo_pairs = {} THEN graph
  ELSE LET pr == CHOOSE x \in todo_pairs : TRUE
       IN  init_defaults(graph_set(graph, pr[1].id, pr[2].id, default_time(pr[2])),
                         todo_pairs \ {pr})

\* run_dijkstra.py 44-57
initialize_graph_with_defaults(graph) ==
  init_defaults(graph,
                {pr \in RunNet \X RunNet :
                   /\ pr[1].id \notin InternalIds
                   /\ pr[2] \in getOutgoing(pr[1].to)
                   /\ pr[2].id \notin InternalIds})

\* lst[-5:]
last5(lst) == IF Len(lst) <= 5 THEN lst ELSE SubSeq(lst, Len(lst) - 4, Len(lst))

\* run_dijkstra.py 59-81 for a vehicle with state vs that the simulator
\* reports on current_edge: the pair of junction_stats and junction_graph
\* the call leaves
update_travel_stats(current_edge, sim_time, vs, junction_stats, junction_graph) ==
  LET from_junc == IF vs.last_edge \in DOMAIN edge_to_junction
                     THEN edge_to_junction[vs.last_edge][1] ELSE ""
      to_junc   == IF current_edge \in DOMAIN edge_to_junction
                     THEN edge_to_junction[current_edge][2] ELSE ""
      key       == <<from_junc, to_junc>>
      durations == last5(Append(IF key \in DOMAIN junction_stats
                                  THEN junction_stats[key] ELSE <<>>,
                                Secs(sim_time - vs.entry_time)))
  IN  IF /\ current_edge # vs.last_edge
         /\ from_junc # "" /\ to_junc # ""
         /\ \E edge \in getOutgoing(from_junc) : edge.to = to_junc
        THEN << [k \in DOMAIN junction_stats \cup {key} |->
                   IF k = key THEN durations ELSE junction_stats[k]],
                graph_set(junction_graph, from_junc, to_junc,
                          RDiv(RSum(durations), Secs(Len(durations)))) >>
      ELSE <<junction_stats, junction_graph>>

----------------------------------------------------------------------------
(* Per-agent reroute state: st = [lr, ic, cu] stands for last_reroute[vid], *)
(* invalid_count[vid], cooldown_until[vid].  An evaluation yields           *)
(* [st, outcome, planned, cmds, route].                                     *)
Res(st, outcome, planned, cmds, route) ==
  [st |-> st, outcome |-> outcome, planned |-> planned, cmds |-> cmds,
   route |-> route]

\* invalid_with_fallback that starts the cooldown without resetting the count
invalid_with_fallback_no_reset(st, now) ==
  LET n == st.ic + 1
  IN  [st   |-> IF n >= INVALID_THRESHOLD
                THEN [st EXCEPT !.cu = now + COOLDOWN_SECONDS, !.ic = n]
                ELSE [st EXCEPT !.ic = n],
       cmds |-> <<"rerouteTraveltime">>]

\* Final2.py 354-359, 366-371: the fallback is issued on every INVALID
invalid_with_fallback(st, now) ==
  LET n == st.ic + 1
  IN  [st   |-> IF n >= INVALID_THRESHOLD
                THEN [st EXCEPT !.cu = now + COOLDOWN_SECONDS, !.ic = 0]
                ELSE [st EXCEPT !.ic = n],
       cmds |-> <<"rerouteTraveltime">>]

\* invalid_at_threshold that issues the fallback twice at the threshold
invalid_at_threshold_fallback_twice(st, now) ==
  LET n == st.ic + 1
  IN  IF n >= INVALID_THRESHOLD
      THEN [st   |-> [st EXCEPT !.cu = now + COOLDOWN_SECONDS, !.ic = 0],
            cmds |-> <<"rerouteTraveltime", "rerouteTraveltime">>]
      ELSE [st |-> [st EXCEPT !.ic = n], cmds |-> <<>>]

\* invalid_at_threshold with the threshold test off by one
invalid_at_threshold_late(st, now) ==
  LET n == st.ic + 1
  IN  IF n > INVALID_THRESHOLD
      THEN [st   |-> [st EXCEPT !.cu = now + COOLDOWN_SECONDS, !.ic = 0],
            cmds |-> <<"rerouteTraveltime">>]
      ELSE [st |-> [st EXCEPT !.ic = n], cmds |-> <<>>]

\* Final2.py 378-383, 386-391, 394-399, 406-410: the fallback is inside the
\* threshold branch
invalid_at_threshold(st, now) ==
  LET n == st.ic + 1
  IN  IF n >= INVALID_THRESHOLD
      THEN [st   |-> [st EXCEPT !.cu = now + COOLDOWN_SECONDS, !.ic = 0],
            cmds |-> <<"rerouteTraveltime">>]
      ELSE [st |-> [st EXCEPT !.ic = n], cmds |-> <<>>]

\* commit_ok without "last_reroute[vid] = t"
commit_ok_no_time(st, now) == [st EXCEPT !.ic = 0]
\* commit_ok without "invalid_count[vid] = 0"
commit_ok_no_reset(st, now) == [st EXCEPT !.lr = now]
\* commit_ok that also clears the cooldown
commit_ok_clears_cooldown(st, now) == [st EXCEPT !.lr = now, !.ic = 0, !.cu = 0]

\* Final2.py 402-404
commit_ok(st, now) == [st EXCEPT !.lr = now, !.ic = 0]

\* throttled without the REROUTE_PERIOD test
throttled_cooldown_only(st, now) ==
  IF now < st.cu THEN "SKIP_COOLDOWN" ELSE "PASS"

\* throttled whose cooldown still holds at the time cooldown_until itself
throttled_cooldown_inclusive(st, now) ==
  IF now <= st.cu THEN "SKIP_COOLDOWN"
  ELSE IF now - st.lr < REROUTE_PERIOD THEN "SKIP_PERIOD"
  ELSE "PASS"

\* throttled without the cooldown test
throttled_period_only(st, now) ==
  IF now - st.lr < REROUTE_PERIOD THEN "SKIP_PERIOD" ELSE "PASS"

\* Final2.py 324-325
throttled(st, now) ==
  IF now < st.cu THEN "SKIP_COOLDOWN"
  ELSE IF now - st.lr < REROUTE_PERIOD THEN "SKIP_PERIOD"
  ELSE "PASS"

\* Final2.py 377
first_hop_violation(new_route, allowed_from_lane) ==
  Len(new_route) >= 2 /\ allowed_from_lane # {}
    /\ new_route[2] \notin allowed_from_lane

\* Final2.py 385
uturn_violation(new_route) ==
  Len(new_route) >= 2 /\ is_uturn_pair(new_route[1], new_route[2])

\* Final2.py 393
connection_violation(new_route, faults) ==
  ~ \A i \in 1..(Len(new_route) - 1) :
        has_edge_connection_any_lane(new_route[i], new_route[i + 1], faults)

\* Final2.py 327-346: the checks before the class graph is resolved
Final2_gate(q) ==
  IF "getLaneID" \notin q.faults /\ q.remain < NEAR_JUNCTION_SKIP_DIST
    THEN "SKIP_NEAR"
  ELSE IF "getRoadID" \in q.faults THEN "RAISED"
  ELSE IF is_pseudo(getRoadID(q)) THEN "SKIP_PSEUDO"
  ELSE IF "getRoute" \in q.faults \/ q.route = <<>> THEN "SKIP_ROUTE"
  ELSE IF is_pseudo(q.route[Len(q.route)]) THEN "SKIP_PSEUDO"
  ELSE "PASS"

\* Final2.py 373-410: validation and commit of the planner's path
Final2_validate(st, now, q, new_route) ==
  LET allowed_from_lane == next_edges_allowed_from_current_lane(q.lane, q.faults)
      inv == invalid_at_threshold(st, now)
  IN  IF first_hop_violation(new_route, allowed_from_lane)
        THEN Res(inv.st, "INVALID_FIRSTHOP", TRUE, inv.cmds, <<>>)
      ELSE IF uturn_violation(new_route)
        THEN Res(inv.st, "INVALID_UTURN", TRUE, inv.cmds, <<>>)
      ELSE IF connection_violation(new_route, q.faults)
        THEN Res(inv.st, "INVALID_CONN", TRUE, inv.cmds, <<>>)
      ELSE IF "setRoute" \notin q.faults
        THEN Res(commit_ok(st, now), "COMMITTED", TRUE, <<"setRoute">>, new_route)
      ELSE Res(inv.st, "INVALID_COMMIT", TRUE, <<"setRoute">> \o inv.cmds, <<>>)

\* Final2.py 353-371: the set of results the planner stage can produce
Final2_plan(st, now, q, G) ==
  LET cur_edge == getRoadID(q)
      dest_edge == q.route[Len(q.route)]
      inv == invalid_with_fallback(st, now)
  IN  IF cur_edge \notin G.nodes \/ dest_edge \notin G.nodes
        THEN {Res(inv.st, "INVALID_GRAPH", FALSE, inv.cmds, <<>>)}
      ELSE IF "planner" \in q.faults
        THEN {Res(inv.st, "INVALID_PLANNER", TRUE, inv.cmds, <<>>)}
      ELSE UNION {
             IF paths = {}
               THEN {Res(inv.st, "INVALID_PLANNER", TRUE, inv.cmds, <<>>)}
             ELSE {Final2_validate(st, now, q, p) : p \in paths}
             : paths \in PlannerResults[G][cur_edge][dest_edge]}

----------------------------------------------------------------------------
(* FinalnoTLS.py: no cooldown, no lane-connection check                    *)
\* FinalnoTLS.py 383-389, 395-401
noTLS_invalid(st) ==
  LET n == st.ic + 1
  IN  [st   |-> IF n >= INVALID_THRESHOLD THEN [st EXCEPT !.ic = 0]
                ELSE [st EXCEPT !.ic = n],
       cmds |-> <<"rerouteTraveltime">>]

\* FinalnoTLS.py 413-415
noTLS_commit_ok(st, now) == [st EXCEPT !.lr = now, !.ic = 0]

\* FinalnoTLS.py 354-375: the loop body has no check of last_reroute
noTLS_gate(q) ==
  IF "getLaneID" \notin q.faults /\ q.remain < NEAR_JUNCTION_SKIP_DIST_noTLS
    THEN "SKIP_NEAR"
  ELSE IF "getRoadID" \in q.faults THEN "RAISED"
  ELSE IF is_pseudo(getRoadID(q)) THEN "SKIP_PSEUDO"
  ELSE IF "getRoute" \in q.faults \/ q.route = <<>> THEN "SKIP_ROUTE"
  ELSE IF is_pseudo(q.route[Len(q.route)]) THEN "SKIP_PSEUDO"
  ELSE "PASS"

\* FinalnoTLS.py 404-417
noTLS_validate(st, now, q, new_route) ==
  LET allowed_from_lane == next_edges_allowed_from_current_lane(q.lane, q.faults)
  IN  IF first_hop_violation(new_route, allowed_from_lane)
        THEN Res(st, "INVALID_FIRSTHOP", TRUE, <<>>, <<>>)
      ELSE IF uturn_violation(new_route)
        THEN Res(st, "INVALID_UTURN", TRUE, <<>>, <<>>)
      ELSE IF "setRoute" \notin q.faults
        THEN Res(noTLS_commit_ok(st, now), "COMMITTED", TRUE, <<"setRoute">>, new_route)
      ELSE Res(st, "INVALID_COMMIT", TRUE, <<"setRoute">>, <<>>)

\* FinalnoTLS.py 382-402
noTLS_plan(st, now, q, G) ==
  LET cur_edge == getRoadID(q)
      dest_edge == q.route[Len(q.route)]
      inv == noTLS_invalid(st)
  IN  IF cur_edge \notin G.nodes \/ dest_edge \notin G.nodes
        THEN {Res(inv.st, "INVALID_GRAPH", FALSE, inv.cmds, <<>>)}
      ELSE IF "planner" \in q.faults
        THEN {Res(inv.st, "INVALID_PLANNER", TRUE, inv.cmds, <<>>)}
      ELSE UNION {
             IF paths = {}
               THEN {Res(inv.st, "INVALID_PLANNER", TRUE, inv.cmds, <<>>)}
             ELSE {noTLS_validate(st, now, q, p) : p \in paths}
             : paths \in PlannerResults[G][cur_edge][dest_edge]}

----------------------------------------------------------------------------
(* The main loop                                                           *)
StateOf(vid) == [lr |-> last_reroute[vid], ic |-> invalid_count[vid],
                 cu |-> cooldown_until[vid]]

\* prev_attempt[vid]: the time and the kind of the agent's latest evaluation
\* that reached the planner, kept for AttemptGap seconds
AttemptGap == 5
NoAttempt == [t |-> NEVER, kind |-> "NONE"]
AttemptKind(r, pre) ==
  IF r.outcome = "COMMITTED" THEN "COMMITTED"
  ELSE IF r.st.cu # pre.cu THEN "COOLDOWN"
  ELSE "INVALID"
NoEv == [vid |-> "", t |-> 0, outcome |-> "NONE", planned |-> FALSE,
         cmds |-> <<>>, route |-> <<>>, lane |-> NoId,
         pre |-> [lr |-> NEVER, ic |-> 0, cu |-> 0],
         prev |-> "NONE"]

\* keys[m]: the agents that have an entry in the defaultdict m.  An entry is
\* made by the first read or write of m[vid]; touched(program, outcome) is
\* the set of maps an evaluation with that outcome reads or writes.
StateMaps == {"last_reroute", "invalid_count", "cooldown_until"}
touched(program, outcome) ==
  IF program = "Final2"
    THEN IF outcome = "SKIP_COOLDOWN" THEN {"cooldown_until"}
         ELSE IF outcome \in {"SKIP_PERIOD", "SKIP_NEAR", "RAISED", "SKIP_PSEUDO",
                              "SKIP_ROUTE"}
           THEN {"cooldown_until", "last_reroute"}
         ELSE StateMaps
  ELSE IF outcome \in {"INVALID_GRAPH", "INVALID_PLANNER"} THEN {"invalid_count"}
       ELSE IF outcome = "COMMITTED" THEN {"invalid_count", "last_reroute"}
       ELSE {}

\* edge_graph_cache after "if key not in edge_graph_cache: ... = build(...)"
cache_lookup(cache, veh_class) ==
  IF CacheKey(veh_class) \in DOMAIN cache THEN cache
  ELSE [k \in DOMAIN cache \cup {CacheKey(veh_class)} |->
          IF k \in DOMAIN cache THEN cache[k]
          ELSE GraphOfClass[veh_class]]

\* es describes the latest call of expected_speed: the segment, the raw
\* occupancy reading, the occupancy sample pushed, the pair returned, and the
\* number of calls so far; w holds, for each class graph weighted so far,
\* the cost "w" of the arcs that enter each node
NoSample == [edge |-> NoId, raw |-> NotNum("none"), occ |-> Zero,
             use_speed |-> Zero, sm_occ |-> Zero, n |-> 0, w |-> <<>>]
\* no segment has been sampled
IdleSampler == EDGE_BUF = <<>> /\ es = NoSample

\* cost_ev describes the latest tick or the latest call of movement_weight
NoProbes == [occ |-> NotNum("none"), mean_speed |-> NotNum("none"),
             tls |-> [ok |-> FALSE, cur |-> 0, remain |-> Zero]]
NoCost == [kind |-> "none", status |-> "none", in_edge |-> NoId, out_edge |-> NoId,
           nd |-> [length |-> Zero, speed_limit |-> Zero], probes |-> NoProbes,
           tls_del |-> Returned(Zero), weight |-> Returned(Zero)]
\* Final2.py 263-264: the caches as built at start-up from what the
\* simulator reports then
StartCost(w) ==
  /\ tls_defs = cache_tls_definitions(w)
  /\ tls_linkmap = build_tls_linkmap(w)
  /\ cost_ev = NoCost
StartWorld == [ids |-> {"J"}, progs |-> <<ProgramCycle>>, links |-> ControlledLinks]

\* dj is the Dijkstra object in use: the graph it was given and the graph it
\* holds, its start vertex, its vertex list and labels, and the vertex and
\* the result of the latest build_path; there is none yet
NoDijkstra == [phase |-> "none", given |-> <<>>, graph |-> <<>>,
               start_vertex |-> NoVertex, vertices |-> <<>>, labels |-> <<>>,
               asked |-> NoVertex, path |-> <<>>, memory |-> <<>>, file |-> <<>>]
IdleDijkstra == dj = NoDijkstra

\* stats holds the trip statistics of Final2.py (lines 267, 268, 272-274),
\* where every agent is (not yet inserted, running, arrived in this step,
\* gone), and what the latest tick read and who arrived in it
NoStats == [veh_depart_time |-> <<>>, veh_waiting_time_live |-> <<>>,
            stuck_excluded |-> {}, finished_travel_times |-> <<>>,
            finished_waiting_times |-> <<>>, arrived_total |-> 0,
            where |-> [v \in Agents |-> "pending"],
            read |-> <<>>, arrived |-> <<>>]
IdleStats == stats = NoStats
\* the network is as it was loaded
IdleWorld == closed = {}

\* run holds the state of run_simulation of run_dijkstra.py: the CSV file it
\* finds, junction_graph, junction_stats, vehicle_states, the simulated time,
\* and the graph the latest try_reroute_vehicle passed to Dijkstra
NoRun == [phase |-> "none", file |-> <<>>, junction_graph |-> <<>>,
          junction_stats |-> <<>>, vehicle_states |-> <<>>, sim_time |-> 0,
          steps |-> 0, handed |-> <<>>, planned |-> FALSE]
IdleRun == run = NoRun

\* frame is the call of tls_delay_seconds under way: where it stands, the
\* cached definitions and the arguments it was given, what the controller
\* reported, the locals delay, scan and scanned of its loop, the iterations
\* made, and its result
NoFrame == [pc |-> "none", defs |-> <<>>, sig_index |-> 0,
            probe |-> [ok |-> FALSE, cur |-> 0, remain |-> Zero],
            delay |-> Zero, scan |-> 0, scanned |-> Zero, iters |-> 0,
            result |-> Returned(Zero)]
IdleFrame == frame = NoFrame

Init ==
  /\ IdleSampler
  /\ StartCost(StartWorld)
  /\ IdleDijkstra
  /\ IdleStats /\ IdleWorld /\ IdleRun /\ IdleFrame
  /\ prog \in Programs
  /\ dt \in StepLengths
  /\ t = 0
  /\ ticks = 0
  /\ pc = "step"
  /\ vstate = [v \in Agents |-> IF v \in Fleet THEN "pending" ELSE "none"]
  /\ todo = {}
  /\ arrived_ids = {}
  /\ last_reroute = [v \in Agents |-> NEVER]
  /\ invalid_count = [v \in Agents |-> 0]
  /\ cooldown_until = [v \in Agents |-> 0]
  /\ keys = [m \in StateMaps |-> {}]
  /\ edge_graph_cache = <<>>
  /\ ev = NoEv
  /\ prev_attempt = [v \in Agents |-> NoAttempt]

\* the vehicle states one simulationStep can lead to
NextVStates ==
  {vs \in [Agents -> {"none", "pending", "running", "arrived"}] :
     \A v \in Agents :
        \/ vs[v] = vstate[v]
        \/ vstate[v] = "pending" /\ vs[v] = "running"
        \/ vstate[v] = "running" /\ vs[v] = "arrived"}

\* the agents the simulation still expects: getMinExpectedNumber() > 0
Expected == {v \in Agents : vstate[v] \in {"pending", "running"}}

RECURSIVE fill_cache(_, _)
\* FinalnoTLS.py 344-352: a graph for every class active in this step
fill_cache(cache, classes) ==
  IF classes = {} THEN cache
  ELSE LET c == CHOOSE x \in classes : TRUE
       IN  fill_cache(cache_lookup(cache, c), classes \ {c})

\* traci.simulationStep() and the work of the tick before the reroute loop
Step ==
  /\ pc = "step"
  /\ Expected # {}
  /\ ticks < MaxTicks
  /\ t' = t + dt
  /\ ticks' = ticks + 1
  /\ \E vs \in NextVStates :
       /\ vstate' = vs
       /\ arrived_ids' = {v \in Agents : vs[v] = "arrived" /\ vstate[v] = "running"}
       /\ todo' = {v \in Agents : vs[v] = "running"}
       /\ IF prog = "FinalnoTLS"
            THEN \E F \in {X \in FaultSets : X \subseteq {"getTypeID"}} :
                   edge_graph_cache' =
                     fill_cache(edge_graph_cache,
                                {get_vehicle_class(v, F) : v \in {x \in Agents : vs[x] = "running"}})
            ELSE edge_graph_cache' = edge_graph_cache
  /\ pc' = "reroute"
  /\ ev' = NoEv
  /\ prev_attempt' = [v \in Agents |->
                        IF t + dt - prev_attempt[v].t > AttemptGap THEN NoAttempt
                        ELSE prev_attempt[v]]
  /\ UNCHANGED <<prog, dt, last_reroute, invalid_count, cooldown_until, keys>>
  /\ UNCHANGED vars_functions

\* the effect of one evaluation with result r on the program state; lane is
\* the lane the agent is on
Apply(vid, lane, r, cache) ==
  /\ last_reroute' = [last_reroute EXCEPT ![vid] = r.st.lr]
  /\ invalid_count' = [invalid_count EXCEPT ![vid] = r.st.ic]
  /\ cooldown_until' = [cooldown_until EXCEPT ![vid] = r.st.cu]
  /\ keys' = [m \in StateMaps |->
               IF m \in touched(prog, r.outcome) THEN keys[m] \cup {vid}
               ELSE keys[m]]
  /\ edge_graph_cache' = cache
  /\ ev' = [vid |-> vid, t |-> t, outcome |-> r.outcome, planned |-> r.planned,
            cmds |-> r.cmds, route |-> r.route,
            lane |-> IF r.outcome = "COMMITTED" THEN lane ELSE NoId,
            pre |-> StateOf(vid),
            prev |-> IF t - prev_attempt[vid].t = AttemptGap
                       THEN prev_attempt[vid].kind ELSE "NONE"]
  /\ prev_attempt' = IF r.planned
                       THEN [prev_attempt EXCEPT ![vid] =
                               [t |-> t, kind |-> AttemptKind(r, StateOf(vid))]]
                       ELSE prev_attempt
  /\ todo' = todo \ {vid}
  /\ pc' = IF r.outcome = "RAISED" THEN "aborted" ELSE pc
  /\ UNCHANGED <<prog, dt, t, ticks, vstate, arrived_ids>>
  /\ UNCHANGED vars_functions

\* Final2.py 323-410: one iteration of the reroute loop
EvaluateFinal2(vid) ==
  /\ pc = "reroute" /\ prog = "Final2" /\ vid \in todo
  /\ LET st == StateOf(vid)
     IN  IF throttled(st, t) # "PASS"
           THEN Apply(vid, NoId, Res(st, throttled(st, t), FALSE, <<>>, <<>>),
                      edge_graph_cache)
         ELSE \E q \in Queries :
           LET gate == Final2_gate(q)
               cache == cache_lookup(edge_graph_cache, get_vehicle_class(vid, q.faults))
           IN  IF gate # "PASS"
                 THEN Apply(vid, q.lane, Res(st, gate, FALSE, <<>>, <<>>),
                            edge_graph_cache)
               ELSE \E r \in Final2_plan(st, t, q,
                               cache[CacheKey(get_vehicle_class(vid, q.faults))]) :
                      Apply(vid, q.lane, r, cache)

\* FinalnoTLS.py 354-417: one iteration of the reroute loop
EvaluateNoTLS(vid) ==
  /\ pc = "reroute" /\ prog = "FinalnoTLS" /\ vid \in todo
  /\ \E q \in Queries :
       LET st == StateOf(vid)
           gate == noTLS_gate(q)
           cache == cache_lookup(edge_graph_cache, get_vehicle_class(vid, q.faults))
       IN  IF gate # "PASS"
             THEN Apply(vid, q.lane, Res(st, gate, FALSE, <<>>, <<>>),
                        edge_graph_cache)
           ELSE \E r \in noTLS_plan(st, t, q,
                           cache[CacheKey(get_vehicle_class(vid, q.faults))]) :
                  Apply(vid, q.lane, r, cache)

\* Final2.py 413-418, FinalnoTLS.py 420-434: the arrivals of the tick, after
\* the last agent was evaluated.  Only the statistics (and, in FinalnoTLS,
\* vehicle_states) are updated: no entry of last_reroute, invalid_count or
\* cooldown_until is deleted.
Arrivals ==
  /\ pc = "reroute" /\ todo = {}
  /\ pc' = "step"
  /\ arrived_ids' = {}
  /\ ev' = NoEv
  /\ UNCHANGED <<prog, dt, t, ticks, vstate, todo, last_reroute, invalid_count,
                 cooldown_until, keys, edge_graph_cache, prev_attempt>>
  /\ UNCHANGED vars_functions

\* getMinExpectedNumber() = 0: the loop ends
Finish ==
  /\ pc = "step"
  /\ Expected = {}
  /\ pc' = "done"
  /\ UNCHANGED <<prog, dt, t, ticks, vstate, todo, arrived_ids, last_reroute,
                 invalid_count, cooldown_until, keys, edge_graph_cache, ev,
                 prev_attempt>>
  /\ UNCHANGED vars_functions

Next ==
  \/ Step
  \/ \E vid \in Agents : EvaluateFinal2(vid)
  \/ \E vid \in Agents : EvaluateNoTLS(vid)
  \/ Arrivals
  \/ Finish

Spec == Init /\ [][Next]_vars

----------------------------------------------------------------------------
(* The condition sampler on its own: any sequence of expected_speed calls   *)
MaxSamples == 11

\* the reroute loop is not running; program is the program under study
IdleLoop(program, step_length) ==
  /\ prog = program
  /\ dt = step_length
  /\ t = 0
  /\ ticks = 0
  /\ pc = "idle"
  /\ vstate = [v \in Agents |-> "none"]
  /\ todo = {}
  /\ arrived_ids = {}
  /\ last_reroute = [v \in Agents |-> NEVER]
  /\ invalid_count = [v \in Agents |-> 0]
  /\ cooldown_until = [v \in Agents |-> 0]
  /\ keys = [m \in StateMaps |-> {}]
  /\ edge_graph_cache = <<>>
  /\ ev = NoEv
  /\ prev_attempt = [v \in Agents |-> NoAttempt]

InitSampler ==
  /\ IdleLoop("FinalnoTLS", 1) /\ IdleSampler /\ StartCost(StartWorld)
  /\ IdleDijkstra /\ IdleStats /\ IdleWorld /\ IdleRun /\ IdleFrame

\* one call expected_speed(out_edge, speed_limit)
ExpectedSpeed(out_edge) ==
  /\ es.n < MaxSamples
  /\ \E rd \in SamplerReadings(out_edge), speed_limit \in SpeedLimits :
       \E r \in {expected_speed(EDGE_BUF, out_edge, speed_limit, rd.occ, rd.speed)} :
          /\ EDGE_BUF' = r.buf
          /\ es' = [edge |-> out_edge, raw |-> rd.occ, occ |-> clamp_occ(rd.occ),
                    use_speed |-> r.use_speed, sm_occ |-> r.sm_occ,
                    n |-> es.n + 1, w |-> es.w]
  /\ UNCHANGED <<vars_loop, vars_cost, vars_dijkstra, vars_stats, vars_world, vars_run, vars_frame>>

NextSampler == \E out_edge \in SamplerEdges : ExpectedSpeed(out_edge)

SpecSampler == InitSampler /\ [][NextSampler]_vars

----------------------------------------------------------------------------
(* The signal caches and the cost model of Final2.py on their own: ticks    *)
(* with their periodic refresh, and calls of movement_weight                *)
MaxCostTicks == 3
CostStepLengths == {30, 60}
TLS_REFRESH_PERIOD == 60

\* the movements weighed, the node data of their out_edge, and the readings
CostArcs == {<<eA, eC>>, <<eA, eB>>, <<eB, eC>>}
NodeData == {[length |-> <<100, 1>>, speed_limit |-> <<10, 1>>],
             [length |-> One, speed_limit |-> <<139, 10>>]}
CostOccReadings == {Num(Zero), Num(Half), NotNum("raise")}
CostSpeedReadings == {Num(<<10, 1>>), Num(<<5, 1>>), Num(One), NotNum("raise")}
MaxPhaseIndex == 3
TlsProbes ==
  {[ok |-> TRUE, cur |-> c, remain |-> r] :
     c \in 0..MaxPhaseIndex, r \in {<<1, 5>>, <<20, 1>>}}
  \cup {[ok |-> FALSE, cur |-> 0, remain |-> Zero]}
CostProbes ==
  {[occ |-> o, mean_speed |-> m, tls |-> p] :
     o \in CostOccReadings, m \in CostSpeedReadings, p \in TlsProbes}

InitCost ==
  /\ \E step_length \in CostStepLengths : IdleLoop("Final2", step_length)
  /\ IdleSampler
  /\ IdleDijkstra
  /\ IdleStats /\ IdleWorld /\ IdleRun /\ IdleFrame
  /\ \E w \in TlsWorlds : StartCost(w)

\* Final2.py 286-306: a tick with its signal refresh.  The refresh fails
\* when cache_tls_definitions or build_tls_linkmap raises; the first
\* assignment has then been made when the second call raises.
CostTick ==
  /\ ticks < MaxCostTicks
  /\ t' = t + dt
  /\ ticks' = ticks + 1
  /\ IF (t + dt) % TLS_REFRESH_PERIOD = 0
       THEN \E w \in TlsWorlds :
              \E status \in {"ok", "cache_tls_definitions", "build_tls_linkmap"} :
                 /\ tls_defs' = IF status = "cache_tls_definitions" THEN tls_defs
                                 ELSE cache_tls_definitions(w)
                 /\ tls_linkmap' = IF status = "ok" THEN build_tls_linkmap(w)
                                    ELSE tls_linkmap
                 /\ cost_ev' = [NoCost EXCEPT !.kind = "refresh", !.status = status]
       ELSE /\ cost_ev' = [NoCost EXCEPT !.kind = "tick"]
            /\ UNCHANGED <<tls_defs, tls_linkmap>>
  /\ UNCHANGED <<prog, dt, pc, vstate, todo, arrived_ids, last_reroute,
                 invalid_count, cooldown_until, keys, edge_graph_cache, ev,
                 prev_attempt>>
  /\ UNCHANGED <<vars_sampler, vars_dijkstra, vars_stats, vars_world, vars_run, vars_frame>>

\* Final2.py 362: one call w(u, v, d) of the planner's weight function.  The
\* calls of a tick do not depend on each other: one call per tick is followed.
Weigh ==
  /\ cost_ev.kind # "weigh"
  /\ \E arc \in CostArcs, nd \in NodeData, probes \in CostProbes :
       cost_ev' = [kind |-> "weigh", status |-> "none",
                   in_edge |-> arc[1], out_edge |-> arc[2], nd |-> nd,
                   probes |-> probes,
                   tls_del |-> expected_tls_delay_for_movement(
                                 arc[1], arc[2], tls_defs, tls_linkmap, probes.tls),
                   weight |-> movement_weight(arc[1], arc[2], nd, tls_defs,
                                              tls_linkmap, probes)]
  /\ UNCHANGED <<tls_defs, tls_linkmap>>
  /\ UNCHANGED <<vars_loop, vars_sampler, vars_dijkstra, vars_stats, vars_world, vars_run, vars_frame>>

NextCost == CostTick \/ Weigh

SpecCost == InitCost /\ [][NextCost]_vars

----------------------------------------------------------------------------
(* dijkstra.py on its own: a Dijkstra object is made for a graph with       *)
(* non-negative weights, dijkstra() is run, build_path is called            *)
MaxWeight == 2
VertexNames == {"s", "a", "b"}
StartVertices == {"s"}
ArcWeights == 0..MaxWeight

\* the dicts of neighbours a vertex u may have (no arc from u to itself)
NeighborDicts(u) ==
  UNION {[N -> ArcWeights] : N \in SUBSET (VertexNames \ {u})}
\* the graphs: every vertex is a key
DijkstraGraphs ==
  {g \in [VertexNames -> UNION {NeighborDicts(u) : u \in VertexNames}] :
     \A u \in VertexNames : g[u] \in NeighborDicts(u)}
\* a graph without the keys whose dict is empty
WithoutEmptyKeys(g) == [u \in {x \in DOMAIN g : DOMAIN g[x] # {}} |-> g[u]]
\* the graphs with two routes from s to d, one through a and one through b
DiamondVertices == {"s", "a", "b", "d"}
DiamondGraphs ==
  {[u \in {"s", "a", "b"} |->
      IF u = "s" THEN [v \in {"a", "b"} |-> IF v = "a" THEN w[1] ELSE w[2]]
      ELSE [v \in {"d"} |-> IF u = "a" THEN w[3] ELSE w[4]]] :
     w \in [1..4 -> ArcWeights]}

InitDijkstra ==
  /\ IdleLoop("Final2", 1) /\ IdleSampler /\ StartCost(StartWorld) /\ IdleStats /\ IdleWorld /\ IdleRun /\ IdleFrame
  /\ \E g \in DijkstraGraphs \cup DiamondGraphs, keep \in BOOLEAN,
          start_vertex \in StartVertices :
       dj = [NoDijkstra EXCEPT
               !.phase = "given",
               !.given = IF keep THEN g ELSE WithoutEmptyKeys(g),
               !.graph = IF keep THEN g ELSE WithoutEmptyKeys(g),
               !.start_vertex = start_vertex]

\* dijkstra.py 7-14: Dijkstra(graph, start_vertex); line 14 raises KeyError
\* for a start vertex the graph does not mention
Construct ==
  /\ dj.phase = "given"
  /\ IF dj.start_vertex \notin vertices_of(dj.graph)
       THEN dj' = [dj EXCEPT !.phase = "KeyError"]
       ELSE \E order \in Orders(vertices_of(dj.graph)) :
              dj' = [dj EXCEPT
                       !.phase = "constructed",
                       !.vertices = order,
                       !.labels = initial_labels(vertices_of(dj.graph),
                                                 dj.start_vertex)]
  /\ UNCHANGED <<vars_loop, vars_sampler, vars_cost, vars_stats, vars_world, vars_run, vars_frame>>

\* dijkstra.py 26-44: dijkstra()
RunDijkstra ==
  /\ dj.phase = "constructed"
  /\ dj' = [dj EXCEPT !.phase = "done",
                      !.labels = dijkstra_loop(dj.graph, dj.vertices, dj.labels, {})]
  /\ UNCHANGED <<vars_loop, vars_sampler, vars_cost, vars_stats, vars_world, vars_run, vars_frame>>

\* dijkstra.py 46-54: build_path(vertex); the calls do not depend on each
\* other, so one call per object is followed
BuildPath(vertex) ==
  /\ dj.phase = "done"
  /\ vertex \in VertexNames \cup vertices_of(dj.graph)
  /\ dj' = [dj EXCEPT !.phase = "path", !.asked = vertex,
                      !.path = build_path(dj.labels, dj.start_vertex, vertex)]
  /\ UNCHANGED <<vars_loop, vars_sampler, vars_cost, vars_stats, vars_world, vars_run, vars_frame>>

NextDijkstra ==
  \/ Construct
  \/ RunDijkstra
  \/ \E vertex \in VertexNames \cup DiamondVertices : BuildPath(vertex)

SpecDijkstra == InitDijkstra /\ [][NextDijkstra]_vars

\* run_dijkstra.py: the travel-time graph in memory is written to the CSV
\* file at the end of a run (line 217), the next run loads the file (line
\* 143) and plans on the graph loaded (lines 116-118)
CsvTimes == {5, 10}
\* the graphs a run may hold: every key has a target (line 30, 57, 77)
CsvGraphs ==
  {WithoutEmptyKeys(g) :
     g \in {x \in [VertexNames ->
                     UNION {[N -> CsvTimes] : N \in SUBSET VertexNames}] :
               \A u \in VertexNames : u \notin DOMAIN x[u]}}
InitCsv ==
  /\ IdleLoop("Final2", 1) /\ IdleSampler /\ StartCost(StartWorld) /\ IdleStats /\ IdleWorld /\ IdleRun /\ IdleFrame
  /\ \E g \in CsvGraphs, start_vertex \in StartVertices :
       dj = [NoDijkstra EXCEPT !.phase = "memory", !.memory = g,
                               !.start_vertex = start_vertex]

\* run_dijkstra.py 217: save_graph_to_csv(junction_graph)
SaveGraph ==
  /\ dj.phase = "memory"
  /\ dj' = [dj EXCEPT !.phase = "saved", !.file = save_graph_to_csv(dj.memory)]
  /\ UNCHANGED <<vars_loop, vars_sampler, vars_cost, vars_stats, vars_world, vars_run, vars_frame>>

\* run_dijkstra.py 143: junction_graph = load_graph_from_csv()
LoadGraph ==
  /\ dj.phase = "saved"
  /\ \E g \in {load_graph_from_csv(dj.file)} :
       dj' = [dj EXCEPT !.phase = "given", !.given = g, !.graph = g]
  /\ UNCHANGED <<vars_loop, vars_sampler, vars_cost, vars_stats, vars_world, vars_run, vars_frame>>

NextCsv ==
  \/ SaveGraph
  \/ LoadGraph
  \/ NextDijkstra

SpecCsv == InitCsv /\ [][NextCsv]_vars

----------------------------------------------------------------------------
(* The trip statistics of Final2.py on their own: the part of every tick    *)
(* that reads the waiting times (lines 290-298) and the part that consumes  *)
(* the arrivals (lines 412-418)                                             *)
MaxStatTicks == 4
STUCK_EXCLUDE_WAIT == <<120, 1>>

\* d with d[k] = x
dict_set(d, k, x) == [j \in DOMAIN d \cup {k} |-> IF j = k THEN x ELSE d[j]]

\* what the two queries of lines 294-295 give for agent vid in a tick: v1
\* has waited just below or at the threshold and its queries may fail, v2
\* moves freely or stands
StatReadings(vid) ==
  IF vid = "v1"
    THEN {[acc |-> NotNum("raise"), wait |-> NotNum("none")]}
         \cup {[acc |-> Num(<<130, 1>>), wait |-> w] :
                 w \in {Num(<<119, 1>>), Num(<<120, 1>>), NotNum("raise")}}
  ELSE {[acc |-> Num(<<3, 1>>), wait |-> w] : w \in {Num(Zero), Num(<<120, 1>>)}}

\* Final2.py 292-298 for one agent of getIDList
sample_agent(st, vid, now, rd) ==
  LET s1 == IF vid \in DOMAIN st.veh_depart_time THEN st
            ELSE [st EXCEPT !.veh_depart_time = dict_set(@, vid, now)]
  IN  IF rd.acc.kind = "raise" THEN s1
      ELSE LET s2 == [s1 EXCEPT
                        !.veh_waiting_time_live = dict_set(@, vid, rd.acc.v)]
           IN  IF rd.wait.kind = "raise" THEN s2
               ELSE IF RLeq(STUCK_EXCLUDE_WAIT, rd.wait.v)
                 THEN [s2 EXCEPT !.stuck_excluded = @ \cup {vid}]
               ELSE s2

RECURSIVE sample_all(_, _, _, _)
\* Final2.py 291-298
sample_all(st, ids, now, rds) ==
  IF ids = {} THEN st
  ELSE LET vid == CHOOSE x \in ids : TRUE
       IN  sample_all(sample_agent(st, vid, now, rds[vid]), ids \ {vid}, now, rds)

\* arrive_agent that records every arrival with a depart time
arrive_agent_no_exclusion(st, vid, now) ==
  LET s1 == [st EXCEPT !.arrived_total = @ + 1]
  IN  IF vid \in DOMAIN st.veh_depart_time
        THEN [s1 EXCEPT
                !.finished_travel_times = Append(@, now - st.veh_depart_time[vid]),
                !.finished_waiting_times =
                   Append(@, IF vid \in DOMAIN st.veh_waiting_time_live
                               THEN st.veh_waiting_time_live[vid] ELSE Zero)]
      ELSE s1

\* Final2.py 414-418 for one agent of getArrivedIDList
arrive_agent(st, vid, now) ==
  LET s1 == [st EXCEPT !.arrived_total = @ + 1]
  IN  IF vid \notin st.stuck_excluded /\ vid \in DOMAIN st.veh_depart_time
        THEN [s1 EXCEPT
                !.finished_travel_times = Append(@, now - st.veh_depart_time[vid]),
                !.finished_waiting_times =
                   Append(@, IF vid \in DOMAIN st.veh_waiting_time_live
                               THEN st.veh_waiting_time_live[vid] ELSE Zero)]
      ELSE s1

RECURSIVE arrive_all(_, _, _)
\* Final2.py 413-418
arrive_all(st, arrived, now) ==
  IF arrived = <<>> THEN st
  ELSE arrive_all(arrive_agent(st, Head(arrived), now), Tail(arrived), now)

\* where an agent may be after a step of the simulator
NextWhere(w) ==
  IF w = "pending" THEN {"pending", "running", "arrived"}
  ELSE IF w = "running" THEN {"running", "arrived"}
  ELSE {"gone"}

InitStats ==
  /\ IdleLoop("Final2", 1) /\ IdleSampler /\ StartCost(StartWorld)
  /\ IdleDijkstra /\ IdleStats /\ IdleWorld /\ IdleRun /\ IdleFrame

\* one iteration of the main loop (lines 286-298, 412-418) as far as the
\* statistics go
StatsTick ==
  /\ ticks < MaxStatTicks
  /\ \E v \in Agents : stats.where[v] \in {"pending", "running"}
  /\ t' = t + dt
  /\ ticks' = ticks + 1
  /\ \E where \in [Agents -> {"pending", "running", "arrived", "gone"}] :
       /\ \A v \in Agents : where[v] \in NextWhere(stats.where[v])
       /\ LET ids == {v \in Agents : where[v] = "running"}
              gone == {v \in Agents : where[v] = "arrived"}
          IN  \E rds \in [ids -> UNION {StatReadings(v) : v \in ids}],
                 arrived \in Orders(gone) :
                 /\ \A v \in ids : rds[v] \in StatReadings(v)
                 /\ stats' = [arrive_all(sample_all(stats, ids, t + dt, rds),
                                         arrived, t + dt)
                                EXCEPT !.where = where, !.read = rds,
                                       !.arrived = arrived]
  /\ UNCHANGED <<prog, dt, pc, vstate, todo, arrived_ids, last_reroute,
                 invalid_count, cooldown_until, keys, edge_graph_cache, ev,
                 prev_attempt>>
  /\ UNCHANGED <<vars_sampler, vars_cost, vars_dijkstra, vars_world, vars_run, vars_frame>>

NextStats == StatsTick

SpecStats == InitStats /\ [][NextStats]_vars

----------------------------------------------------------------------------
(* The class-graph cache of both programs on its own, in a network whose    *)
(* lane permissions change while the program runs                           *)
MaxCacheTicks == 4

\* the class graphs the simulator would yield under each closure
GraphNow ==
  [closed_now \in SUBSET ClosableLanes |->
     [c \in Classes |-> build_edge_graph_now(c, closed_now)]]

\* Final2.py 348-352, FinalnoTLS.py 349-351 and 378-381: "if key not in
\* edge_graph_cache: edge_graph_cache[key] = build_edge_graph_from_traci(c)"
\* while the lanes of closed_now are closed
cache_lookup_now(cache, veh_class, closed_now) ==
  IF CacheKey(veh_class) \in DOMAIN cache THEN cache
  ELSE [k \in DOMAIN cache \cup {CacheKey(veh_class)} |->
          IF k \in DOMAIN cache THEN cache[k]
          ELSE GraphNow[closed_now][veh_class]]

RECURSIVE fill_cache_now(_, _, _)
\* the lookups of one tick, for the classes of the agents evaluated in it
fill_cache_now(cache, classes, closed_now) ==
  IF classes = {} THEN cache
  ELSE LET c == CHOOSE x \in classes : TRUE
       IN  fill_cache_now(cache_lookup_now(cache, c, closed_now), classes \ {c},
                          closed_now)

InitCache ==
  /\ \E program \in Programs, step_length \in CostStepLengths :
        IdleLoop(program, step_length)
  /\ IdleSampler /\ StartCost(StartWorld) /\ IdleDijkstra /\ IdleStats /\ IdleWorld /\ IdleRun /\ IdleFrame

\* one iteration of the main loop of either program, for what it does to
\* edge_graph_cache: simulationStep, during which lanes may be closed or
\* reopened, then the cache lookups of the reroute section for the classes of
\* the agents it evaluates.  No other line of the programs writes
\* edge_graph_cache.
CacheTick ==
  /\ ticks < MaxCacheTicks
  /\ t' = t + dt
  /\ ticks' = ticks + 1
  /\ \E closed_now \in SUBSET ClosableLanes, classes \in SUBSET Classes :
       /\ closed' = closed_now
       /\ edge_graph_cache' = fill_cache_now(edge_graph_cache, classes, closed_now)
  /\ UNCHANGED <<prog, dt, pc, vstate, todo, arrived_ids, last_reroute,
                 invalid_count, cooldown_until, keys, ev, prev_attempt>>
  /\ UNCHANGED <<vars_sampler, vars_cost, vars_dijkstra, vars_stats, vars_run, vars_frame>>

NextCache == CacheTick

SpecCache == InitCache /\ [][NextCache]_vars

----------------------------------------------------------------------------
(* run_simulation of run_dijkstra.py, for what it does to junction_graph    *)
MaxRunSteps == 4
RunVehicles == {"v1"}
\* what getRoadID may report for a vehicle
RoadIDs == {"e1", "e2", "e3", ":j"}
\* the files a run may find: none, or the file a run has left
RunFiles == {<<>>, <<[From |-> "J1", To |-> "J3", AvgTime |-> <<"7">>]>>}

InitRun ==
  /\ IdleLoop("Final2", 1) /\ IdleSampler /\ StartCost(StartWorld)
  /\ IdleDijkstra /\ IdleStats /\ IdleWorld /\ IdleFrame
  /\ \E file \in RunFiles : run = [NoRun EXCEPT !.phase = "start", !.file = file]

\* run_dijkstra.py 143-149: the graph of the file, with its times as exact
\* fractions, or the default graph when the file gives none
StartRun ==
  /\ run.phase = "start"
  /\ LET loaded == load_graph_from_csv(run.file)
         times  == [u \in DOMAIN loaded |->
                      [v \in DOMAIN loaded[u] |-> Secs(loaded[u][v])]]
     IN  run' = [run EXCEPT
                   !.phase = "loop",
                   !.junction_graph =
                      IF DOMAIN times = {} THEN initialize_graph_with_defaults(times)
                      ELSE times]
  /\ UNCHANGED <<vars_loop, vars_sampler, vars_cost, vars_dijkstra, vars_stats,
                 vars_world, vars_frame>>

\* run_dijkstra.py 156-215 for one vehicle on the road: a vehicle seen for
\* the first time gets its state (lines 182-192), any other goes through
\* update_travel_stats (line 194); try_reroute_vehicle (line 215) then
\* passes junction_graph to Dijkstra when the segment and the destination of
\* the vehicle are known (lines 106-116).  The route it may set is not
\* followed: the vehicle is wherever the simulator reports it.
RunStep ==
  /\ run.phase = "loop"
  /\ run.steps < MaxRunSteps
  /\ \E veh_id \in RunVehicles, current_edge \in RoadIDs, routed \in BOOLEAN :
       LET sim_time == run.sim_time + 1
           known    == veh_id \in DOMAIN run.vehicle_states
           upd      == IF known
                         THEN update_travel_stats(current_edge, sim_time,
                                                  run.vehicle_states[veh_id],
                                                  run.junction_stats,
                                                  run.junction_graph)
                       ELSE <<run.junction_stats, run.junction_graph>>
           moved    == ~known \/ current_edge # run.vehicle_states[veh_id].last_edge
           vs       == IF moved
                         THEN [last_edge |-> current_edge, entry_time |-> sim_time]
                       ELSE run.vehicle_states[veh_id]
           plans    == current_edge \in DOMAIN edge_to_junction /\ routed
       IN  run' = [run EXCEPT
                     !.sim_time = sim_time,
                     !.steps = run.steps + 1,
                     !.junction_stats = upd[1],
                     !.junction_graph = upd[2],
                     !.vehicle_states =
                        [k \in DOMAIN run.vehicle_states \cup {veh_id} |->
                           IF k = veh_id THEN vs ELSE run.vehicle_states[k]],
                     !.planned = plans,
                     !.handed = IF plans THEN upd[2] ELSE <<>>]
  /\ UNCHANGED <<vars_loop, vars_sampler, vars_cost, vars_dijkstra, vars_stats,
                 vars_world, vars_frame>>

NextRun == StartRun \/ RunStep

SpecRun == InitRun /\ [][NextRun]_vars

----------------------------------------------------------------------------
(* The weight refresh of FinalnoTLS.py on its own: in every tick the graph  *)
(* of each active class is weighted from the rolling windows                *)
MaxRefreshTicks == 3
\* the last-step readings of segment b in a tick; every other segment is
\* empty and free
RefreshReadings ==
  {[occ |-> Num(Zero), speed |-> Num(<<8, 1>>)],
   [occ |-> Num(One), speed |-> Num(Zero)],
   [occ |-> NotNum("raise"), speed |-> Num(<<8, 1>>)]}
ReadingsOfTick(rd) ==
  [v \in EdgeIDList |->
     IF v = eB THEN rd ELSE [occ |-> Num(Zero), speed |-> Num(<<8, 1>>)]]

InitRefresh ==
  /\ IdleLoop("FinalnoTLS", 1) /\ IdleSampler /\ StartCost(StartWorld)
  /\ IdleDijkstra /\ IdleStats /\ IdleWorld /\ IdleRun /\ IdleFrame

\* FinalnoTLS.py 286-352 for what it does to edge_graph_cache, EDGE_BUF and
\* the weights: simulationStep, then for every class of the active agents
\* the cache lookup and compute_edge_weights_for_class.  The readings of a
\* segment are those of the last step, the same for every call of the tick.
WeightRefreshTick ==
  /\ ticks < MaxRefreshTicks
  /\ t' = t + dt
  /\ ticks' = ticks + 1
  /\ \E classes \in SUBSET Classes, rd \in RefreshReadings,
        speed_limit \in SpeedLimits :
       \E key_order \in Orders({CacheKey(c) : c \in classes}) :
          \E r \in {refresh_weights(EDGE_BUF, es.w, fill_cache(edge_graph_cache, classes),
                                     key_order, speed_limit, ReadingsOfTick(rd),
                                     es)} :
             /\ edge_graph_cache' = fill_cache(edge_graph_cache, classes)
             /\ EDGE_BUF' = r.buf
             /\ es' = [r.last EXCEPT !.w = r.w]
  /\ UNCHANGED <<prog, dt, pc, vstate, todo, arrived_ids, last_reroute,
                 invalid_count, cooldown_until, keys, ev, prev_attempt>>
  /\ UNCHANGED <<vars_cost, vars_dijkstra, vars_stats, vars_world, vars_run, vars_frame>>

NextRefresh == WeightRefreshTick

SpecRefresh == InitRefresh /\ [][NextRefresh]_vars

----------------------------------------------------------------------------
(* One call of tls_delay_seconds of Final2.py, iteration by iteration       *)
ScanPrograms == {ProgramCycle, ProgramNeverGreen, ProgramLateGreen,
                 ProgramZeroCycle, ProgramZeroPhase}
ScanIndexes == {0, 1}

\* the call tls_delay_seconds("J", sig_index, tls_defs) is about to start,
\* with the definitions cached from one of the programs
InitScan ==
  /\ IdleLoop("Final2", 1) /\ IdleSampler /\ StartCost(StartWorld)
  /\ IdleDijkstra /\ IdleStats /\ IdleWorld /\ IdleRun
  /\ \E p \in ScanPrograms, sig_index \in ScanIndexes, probe \in TlsProbes :
       frame = [NoFrame EXCEPT
                  !.pc = "call",
                  !.defs = cache_tls_definitions(
                             [ids |-> {"J"}, progs |-> <<p>>, links |-> ControlledLinks]),
                  !.sig_index = sig_index,
                  !.probe = probe]

EnterScan ==
  /\ frame.pc = "call"
  /\ frame' = enter_scan(frame, "J")
  /\ UNCHANGED <<vars_loop, vars_sampler, vars_cost, vars_dijkstra, vars_stats,
                 vars_world, vars_run>>

ScanIteration ==
  /\ frame.pc = "loop"
  /\ frame' = scan_iteration(frame, "J")
  /\ UNCHANGED <<vars_loop, vars_sampler, vars_cost, vars_dijkstra, vars_stats,
                 vars_world, vars_run>>

NextScan == EnterScan \/ ScanIteration

\* a call that has started runs on: the program is sequential and nothing
\* in the loop waits
SpecScan == InitScan /\ [][NextScan]_vars /\ WF_vars(NextScan)


TypeOK ==
  /\ prog \in Programs
  /\ pc \in {"step", "reroute", "done", "aborted", "idle"}
  /\ \A v \in Agents : invalid_count[v] \in 0..INVALID_THRESHOLD

----------------------------------------------------------------------------
(* Properties.  ev describes the evaluation that has just taken place:     *)
(* ev.pre is the agent's reroute state before it, StateOf(ev.vid) the      *)
(* state after it.                                                         *)
Evaluated == ev.vid # ""
InvalidOutcomes == {"INVALID_GRAPH", "INVALID_PLANNER", "INVALID_FIRSTHOP",
                    "INVALID_UTURN", "INVALID_CONN", "INVALID_COMMIT"}
IsInvalid == Evaluated /\ ev.outcome \in InvalidOutcomes
Issued(cmd) == \E i \in 1..Len(ev.cmds) : ev.cmds[i] = cmd
Unchanged == Evaluated /\ StateOf(ev.vid) = ev.pre
Skipped == Unchanged /\ ~ev.planned /\ ev.cmds = <<>>

\* C1: in Final2 an INVALID outcome that brings invalid_count to
\* INVALID_THRESHOLD sets cooldown_until = now + COOLDOWN_SECONDS and resets
\* invalid_count to 0 in the same evaluation; an INVALID outcome below the
\* threshold raises invalid_count by exactly 1 and leaves cooldown_until as
\* it was.
C1_InvalidLadder ==
  (prog = "Final2" /\ IsInvalid) =>
     IF ev.pre.ic + 1 >= INVALID_THRESHOLD
       THEN /\ cooldown_until[ev.vid] = ev.t + COOLDOWN_SECONDS
            /\ invalid_count[ev.vid] = 0
       ELSE /\ invalid_count[ev.vid] = ev.pre.ic + 1
            /\ cooldown_until[ev.vid] = ev.pre.cu

\* a rejected commit is the second INVALID outcome in a row and starts a
\* cooldown
C1_Witness ==
  /\ prog = "Final2" /\ Evaluated /\ ev.outcome = "INVALID_COMMIT"
  /\ ev.pre.ic = 1
  /\ cooldown_until[ev.vid] = ev.t + COOLDOWN_SECONDS
  /\ invalid_count[ev.vid] = 0

\* C2: in Final2 every INVALID outcome, of every kind and whether or not the
\* threshold is reached, issues the fallback rerouteTraveltime command in
\* the same evaluation.
C2_FallbackOnEveryInvalid ==
  (prog = "Final2" /\ IsInvalid) => Issued("rerouteTraveltime")

\* C3: in Final2 an evaluation at a time now with now < cooldown_until or
\* now - last_reroute < REROUTE_PERIOD is skipped: no planner call, no
\* setRoute and no rerouteTraveltime, and last_reroute, invalid_count and
\* cooldown_until keep their values.
C3_ThrottledIsSkipped ==
  (prog = "Final2" /\ Evaluated
     /\ (ev.t < ev.pre.cu \/ ev.t - ev.pre.lr < REROUTE_PERIOD))
  => Skipped

\* an evaluation during a cooldown, REROUTE_PERIOD or more after the last
\* commit
C3_Witness ==
  /\ prog = "Final2" /\ Evaluated
  /\ ev.t < ev.pre.cu /\ ev.t - ev.pre.lr >= REROUTE_PERIOD
  /\ ev.outcome = "SKIP_COOLDOWN"

\* C4 as claimed: in Final2, of two evaluations of one agent AttemptGap (5)
\* seconds apart of which the first reached the planner, whatever its
\* outcome, the second is skipped.
C4_SecondAttemptSkipped ==
  (prog = "Final2" /\ Evaluated /\ ev.prev # "NONE") => Skipped

\* C4 as amended: in Final2, of two evaluations of one agent AttemptGap (5)
\* seconds apart of which the first committed a route or was the INVALID
\* outcome that started a cooldown, the second is skipped.
C4_SecondAfterCommitOrCooldownSkipped ==
  (prog = "Final2" /\ Evaluated /\ ev.prev \in {"COMMITTED", "COOLDOWN"})
  => Skipped

\* the evaluation 5 s after a commit
C4_Witness ==
  /\ prog = "Final2" /\ Evaluated /\ ev.prev = "COMMITTED"
  /\ ev.t - ev.pre.lr = AttemptGap
  /\ ev.outcome = "SKIP_PERIOD"

\* C5: in FinalnoTLS an agent whose route was committed at time t (the value
\* of last_reroute) is not planned again and gets no setRoute before
\* t + REROUTE_PERIOD (15).
C5_NoReplanWithinPeriod ==
  (prog = "FinalnoTLS" /\ Evaluated /\ ev.pre.lr # NEVER
     /\ ev.t - ev.pre.lr < REROUTE_PERIOD_noTLS)
  => (~ev.planned /\ ~Issued("setRoute"))

\* C6: in both programs a successful commit at time now leaves
\* invalid_count = 0 and last_reroute = now, whatever invalid_count was
\* before, and in Final2 leaves cooldown_until as it was.
C6_CommitResets ==
  (Evaluated /\ ev.outcome = "COMMITTED") =>
     /\ invalid_count[ev.vid] = 0
     /\ last_reroute[ev.vid] = ev.t
     /\ cooldown_until[ev.vid] = ev.pre.cu

\* a commit right after an INVALID outcome, after a cooldown has expired
C6_Witness ==
  /\ prog = "Final2" /\ Evaluated /\ ev.outcome = "COMMITTED"
  /\ ev.pre.ic = 1 /\ ev.pre.cu > 0
  /\ Issued("setRoute")

\* the fallback commands among the commands of the evaluation
FallbacksIssued == SelectSeq(ev.cmds, LAMBDA c : c = "rerouteTraveltime")
\* what a planner failure does from reroute state st at time now
PlannerFailure(st, now) ==
  IF prog = "Final2" THEN invalid_with_fallback(st, now) ELSE noTLS_invalid(st)

\* C7: a commit rejected by the simulator is handled as a planner failure
\* is: from the same per-agent state, the resulting invalid_count and
\* cooldown_until (and last_reroute) and the fallback commands issued are
\* those of a failing nx.shortest_path, in both programs.
C7_RejectedCommitAsPlannerFailure ==
  (Evaluated /\ ev.outcome = "INVALID_COMMIT") =>
     /\ StateOf(ev.vid) = PlannerFailure(ev.pre, ev.t).st
     /\ FallbacksIssued = PlannerFailure(ev.pre, ev.t).cmds

\* C8: in Final2 every committed route of two or more segments has as its
\* second segment a segment reachable through a link of the lane the agent
\* is on.
C8_FirstHopReachable ==
  (prog = "Final2" /\ Evaluated /\ ev.outcome = "COMMITTED" /\ Len(ev.route) >= 2)
  => ev.route[2] \in TrueNextEdges(ev.lane)

\* C9: in Final2 no committed route starts with a U-turn pair, and every
\* consecutive pair of segments of a committed route has a lane of the first
\* segment linked to the second.
C9_NoUturnAndConnected ==
  (prog = "Final2" /\ Evaluated /\ ev.outcome = "COMMITTED") =>
     /\ Len(ev.route) >= 2 => ~is_uturn_pair(ev.route[1], ev.route[2])
     /\ \A i \in 1..(Len(ev.route) - 1) :
           TrulyConnected(ev.route[i], ev.route[i + 1])

\* C10: in Final2 cooldown_until of an agent never decreases: every step
\* leaves it at least as large as it was.
C10_CooldownMonotonic ==
  [][prog = "Final2" =>
       \A v \in Agents : cooldown_until'[v] >= cooldown_until[v]]_vars

\* a cooldown that replaces an earlier, expired one
C10_Witness ==
  /\ prog = "Final2" /\ Evaluated
  /\ ev.pre.cu > 0
  /\ cooldown_until[ev.vid] = ev.t + COOLDOWN_SECONDS
  /\ cooldown_until[ev.vid] > ev.pre.cu

\* C11: in Final2 no failure raised while one agent is evaluated (a failing
\* query for its lane, road id, route or class, or a failing command)
\* propagates past that agent: after every evaluation the reroute loop goes
\* on and the tick completes.
C11_NoFailurePropagates ==
  (prog = "Final2" /\ Evaluated) => pc = "reroute"

\* C12: the per-agent reroute state is destroyed on arrival: once the
\* arrivals of the tick in which an agent arrived have been handled, no
\* entry for it remains in last_reroute, invalid_count or cooldown_until, in
\* both programs.
C12_StateDestroyedOnArrival ==
  \A v \in Agents :
     (vstate[v] = "arrived" /\ pc \in {"step", "done"}) =>
        \A m \in StateMaps : v \notin keys[m]

\* the windows of segment e in EDGE_BUF
WindowsOf(buf, e) == setdefault(buf, e)
\* a non-empty sequence without its last element
Front(seq) == SubSeq(seq, 1, Len(seq) - 1)

\* C13: in FinalnoTLS no window of EDGE_BUF ever holds more than WINDOW_N
\* samples; a call of expected_speed for a segment whose window is full
\* evicts the oldest sample and appends the new one (below capacity it only
\* appends), leaves the windows of the other segments alone, and returns as
\* smoothed occupancy the arithmetic mean of the window after the push.
C13_RollingWindows ==
  [][\A e \in SamplerEdges :
       LET old == WindowsOf(EDGE_BUF, e)
           new == WindowsOf(EDGE_BUF', e)
       IN  /\ Len(new.occ) <= WINDOW_N /\ Len(new.speed) <= WINDOW_N
           /\ IF es'.n = es.n + 1 /\ es'.edge = e
                THEN /\ new.occ = IF Len(old.occ) = WINDOW_N
                                    THEN Append(Tail(old.occ), es'.occ)
                                    ELSE Append(old.occ, es'.occ)
                     /\ Front(new.speed) = IF Len(old.speed) = WINDOW_N
                                             THEN Tail(old.speed)
                                             ELSE old.speed
                     /\ es'.sm_occ = RDiv(RSum(new.occ), <<Len(new.occ), 1>>)
                ELSE new = old]_vars

\* a full window whose oldest sample differs from the one just pushed, after
\* the eleventh call for the segment
C13_Witness ==
  /\ es.n = WINDOW_N + 1
  /\ DOMAIN EDGE_BUF = {es.edge}
  /\ Len(EDGE_BUF[es.edge].occ) = WINDOW_N
  /\ EDGE_BUF[es.edge].occ[1] = One
  /\ es.occ = Zero
  /\ es.sm_occ = <<9, 10>>

\* C14: in FinalnoTLS the smoothed occupancy returned by expected_speed lies
\* in [0, 1] whatever the raw readings were (NaN, negative, above 1,
\* non-numeric, failed query).
C14_SmoothedOccupancyInUnitInterval ==
  es.n > 0 => (RLeq(Zero, es.sm_occ) /\ RLeq(es.sm_occ, One))

\* a NaN reading is pushed as 0 after a sample of 1: the mean is 1/2
C14_Witness ==
  /\ es.n = 2
  /\ es.raw = NotNum("nan")
  /\ EDGE_BUF[es.edge].occ = <<One, Zero>>
  /\ es.sm_occ = <<1, 2>>

----------------------------------------------------------------------------
(* Properties of the cost model.  cost_ev describes the call of             *)
(* movement_weight or the tick that has just taken place.                   *)
Weighed == cost_ev.kind = "weigh"
\* the movement weighed has no signal in the link map
NoSignal == GoverningTls(cost_ev.in_edge, cost_ev.out_edge, tls_linkmap) = {}
\* the controller of the movement weighed, its signal index, and the cached
\* phases of the controller
TlsOfCall ==
  CHOOSE x \in GoverningTls(cost_ev.in_edge, cost_ev.out_edge, tls_linkmap) : TRUE
IndexOfCall == tls_linkmap[TlsOfCall][<<cost_ev.in_edge, cost_ev.out_edge>>]
PhasesOfCall == tls_defs[TlsOfCall].phases
\* the call reached the cached program with a phase index it has
PhaseKnown ==
  /\ Weighed /\ ~NoSignal
  /\ TlsOfCall \in DOMAIN tls_defs
  /\ cost_ev.probes.tls.cur < Len(PhasesOfCall)
\* the signal state has a green at index idx (counted from 0)
GreenAt(state, idx) == (idx + 1) \in DOMAIN state /\ state[idx + 1] \in {"G", "g"}

\* C15: the weight movement_weight returns is never negative.
C15_WeightNonNegative ==
  (Weighed /\ cost_ev.weight.kind = "num") => RLeq(Zero, cost_ev.weight.v)

ExampleSegment == [length |-> <<100, 1>>, speed_limit |-> <<10, 1>>]
ExampleCall(occ) ==
  Weighed /\ NoSignal /\ cost_ev.nd = ExampleSegment /\ cost_ev.probes.occ = Num(occ)

\* C16 as claimed: for a segment of length 100 and speed limit 10 with no
\* signal on the movement, movement_weight returns 10 at occupancy 0 and 20
\* at occupancy 0.5, whatever mean speed is sampled.
C16_ExampleWeights ==
  /\ ExampleCall(Zero) => cost_ev.weight = Returned(<<10, 1>>)
  /\ ExampleCall(Half) => cost_ev.weight = Returned(<<20, 1>>)

\* C16 as amended: for that segment with no signal on the movement,
\* movement_weight returns 10 at occupancy 0 whatever mean speed is sampled;
\* at occupancy 0.5 it returns 200 / mean_speed when the mean speed sampled
\* is above 1.5 (20 when it is 10, the speed limit) and 200 / 3 when it is
\* not above 1.5 or its query fails.
C16_ExampleWeightsBySpeed ==
  /\ ExampleCall(Zero) => cost_ev.weight = Returned(<<10, 1>>)
  /\ ExampleCall(Half) =>
       cost_ev.weight =
         Returned(RDiv(<<200, 1>>,
                       IF /\ cost_ev.probes.mean_speed.kind = "num"
                          /\ RLess(<<3, 2>>, cost_ev.probes.mean_speed.v)
                         THEN cost_ev.probes.mean_speed.v
                       ELSE <<3, 1>>))

\* the example segment at occupancy 0.5 and mean speed 10 weighs 20
C16_Witness ==
  /\ ExampleCall(Half)
  /\ cost_ev.probes.mean_speed = Num(<<10, 1>>)
  /\ cost_ev.weight = Returned(<<20, 1>>)

\* C17: tls_delay_seconds returns 0 whenever the phase of the cached program
\* at the controller's current phase index is green ("G" or "g") at the
\* signal index of the movement, whatever the remaining time.
C17_GreenNowNoDelay ==
  (PhaseKnown /\ cost_ev.probes.tls.ok
     /\ GreenAt(PhasesOfCall[cost_ev.probes.tls.cur + 1][1], IndexOfCall))
  => cost_ev.tls_del = Returned(Zero)

\* the current phase is "g" at the index, in a program that also has other
\* phases for it
C17_Witness ==
  /\ PhaseKnown /\ cost_ev.probes.tls.ok
  /\ PhasesOfCall = ProgramCycle
  /\ PhasesOfCall[cost_ev.probes.tls.cur + 1][1][IndexOfCall + 1] = "g"
  /\ cost_ev.tls_del = Returned(Zero)

\* the k-th phase scanned after phase cur
ScanPhase(phases, cur, k) == phases[((cur + k) % Len(phases)) + 1]
\* at most ScanBound phases are followed
ScanBound == 8
RECURSIVE NoGreenFrom(_, _, _, _, _)
\* from the k-th phase scanned on, with seen the durations of the phases
\* scanned before it, TLS_LOOKAHEAD_LIMIT is accumulated before a phase that
\* is green at idx is met
NoGreenFrom(phases, cur, idx, k, seen) ==
  IF ~RLess(seen, TLS_LOOKAHEAD_LIMIT) THEN TRUE
  ELSE IF k > ScanBound \/ GreenAt(ScanPhase(phases, cur, k)[1], idx) THEN FALSE
  ELSE NoGreenFrom(phases, cur, idx, k + 1, RAdd(seen, ScanPhase(phases, cur, k)[2]))
\* the scan accumulates TLS_LOOKAHEAD_LIMIT without meeting a green at idx
HorizonWithoutGreen(phases, cur, idx) == NoGreenFrom(phases, cur, idx, 1, Zero)

\* C18: tls_delay_seconds returns 0 whenever the cyclic scan of the phases
\* after the current one accumulates TLS_LOOKAHEAD_LIMIT (300 s) of phase
\* durations without meeting a phase that is green at the index, programs
\* that are never green at the index included.
C18_NoGreenWithinHorizonNoDelay ==
  (PhaseKnown /\ HorizonWithoutGreen(PhasesOfCall, cost_ev.probes.tls.cur, IndexOfCall))
  => cost_ev.tls_del = Returned(Zero)

\* a red current phase of a program whose next green at the index starts
\* after the horizon
C18_Witness ==
  /\ PhaseKnown /\ cost_ev.probes.tls.ok
  /\ PhasesOfCall = ProgramLateGreen
  /\ cost_ev.probes.tls.cur = 0 /\ IndexOfCall = 1
  /\ cost_ev.probes.tls.remain = <<20, 1>>
  /\ HorizonWithoutGreen(PhasesOfCall, 0, 1)
  /\ cost_ev.tls_del = Returned(Zero)

\* the phases scanned after phase cur that are green at idx, by their place
\* in the scan
GreensAhead(phases, cur, idx) ==
  {k \in 1..ScanBound : GreenAt(ScanPhase(phases, cur, k)[1], idx)}
\* the place in the scan of the first phase that is green at idx
FirstGreen(phases, cur, idx) ==
  CHOOSE k \in GreensAhead(phases, cur, idx) :
    \A j \in GreensAhead(phases, cur, idx) : k <= j
\* the durations of the phases scanned before the first green at idx
ScannedBeforeGreen(phases, cur, idx) ==
  RSum([k \in 1..(FirstGreen(phases, cur, idx) - 1) |-> ScanPhase(phases, cur, k)[2]])
\* the current phase is not green at the index of the call and the scan
\* meets a green there before TLS_LOOKAHEAD_LIMIT is accumulated
GreenWithinHorizon ==
  /\ PhaseKnown /\ cost_ev.probes.tls.ok
  /\ ~GreenAt(PhasesOfCall[cost_ev.probes.tls.cur + 1][1], IndexOfCall)
  /\ GreensAhead(PhasesOfCall, cost_ev.probes.tls.cur, IndexOfCall) # {}
  /\ RLess(ScannedBeforeGreen(PhasesOfCall, cost_ev.probes.tls.cur, IndexOfCall),
           TLS_LOOKAHEAD_LIMIT)

\* C26: when the current phase is not green at the index and the scan meets
\* a green phase within the horizon, tls_delay_seconds returns max(0,
\* remaining time of the current phase) plus the durations of the phases
\* scanned after the current one, up to and without the first phase that is
\* green at the index; that scanned sum is below TLS_LOOKAHEAD_LIMIT.
C26_DelayUntilNextGreen ==
  GreenWithinHorizon =>
    /\ cost_ev.tls_del =
         Returned(RAdd(RMax(Zero, cost_ev.probes.tls.remain),
                       ScannedBeforeGreen(PhasesOfCall, cost_ev.probes.tls.cur,
                                          IndexOfCall)))
    /\ RLess(ScannedBeforeGreen(PhasesOfCall, cost_ev.probes.tls.cur, IndexOfCall),
             TLS_LOOKAHEAD_LIMIT)

\* phase 1 of the cycle program ("y" at index 0) with 20 s left: the scan
\* passes the three phases that are red at index 0 (30 + 10 + 5 s) and
\* stops at the phase "G"
C26_Witness ==
  /\ GreenWithinHorizon
  /\ PhasesOfCall = ProgramCycle
  /\ cost_ev.probes.tls.cur = 1 /\ IndexOfCall = 0
  /\ cost_ev.probes.tls.remain = <<20, 1>>
  /\ FirstGreen(PhasesOfCall, 1, 0) = 4
  /\ cost_ev.tls_del = Returned(<<65, 1>>)

\* C19: a refresh that fails, in cache_tls_definitions or in
\* build_tls_linkmap, leaves tls_defs and tls_linkmap as they were before
\* the attempt.
C19_FailedRefreshKeepsCache ==
  [][(cost_ev'.kind = "refresh" /\ cost_ev'.status # "ok")
       => (tls_defs' = tls_defs /\ tls_linkmap' = tls_linkmap)]_vars

----------------------------------------------------------------------------
(* Properties of dijkstra.py                                                *)
\* the arcs of a dict-of-dicts graph and their weights
ArcsOf(graph) ==
  {a \in vertices_of(graph) \X vertices_of(graph) :
     a[1] \in DOMAIN graph /\ a[2] \in DOMAIN graph[a[1]]}
WeightOf(graph) == [a \in ArcsOf(graph) |-> graph[a[1]][a[2]]]
\* the simple paths of the graph from s to v
PathsTo(graph, s, v) ==
  {p \in SimplePaths([nodes |-> vertices_of(graph), arcs |-> ArcsOf(graph)], s,
                     Cardinality(vertices_of(graph)) - 1) : p[Len(p)] = v}
\* the least cost of a path from s to v, for v reachable from s
MinCost(graph, s, v) ==
  LET costs == {PathCost(p, WeightOf(graph)) : p \in PathsTo(graph, s, v)}
  IN  CHOOSE c \in costs : \A o \in costs : c <= o
\* p is a path of the graph from s to v
IsPath(graph, p, s, v) ==
  /\ p # <<>> /\ p[1] = s /\ p[Len(p)] = v
  /\ \A i \in 1..(Len(p) - 1) : <<p[i], p[i + 1]>> \in ArcsOf(graph)

\* C20: for a graph with non-negative weights, after dijkstra() the distance
\* label of every vertex reachable from start_vertex is the least cost of a
\* path from start_vertex to it; build_path(v) returns, for v reachable, a
\* path of the graph from start_vertex to v whose weights sum to that label,
\* and the empty list for every v not reachable; the graph is as it was given.
C20_DijkstraShortestPaths ==
  /\ dj.phase \in {"done", "path"} =>
       \A v \in vertices_of(dj.given) :
          PathsTo(dj.given, dj.start_vertex, v) # {} =>
             dj.labels[v].distance = MinCost(dj.given, dj.start_vertex, v)
  /\ dj.phase = "path" =>
       IF /\ dj.asked \in vertices_of(dj.given)
          /\ PathsTo(dj.given, dj.start_vertex, dj.asked) # {}
         THEN /\ IsPath(dj.given, dj.path, dj.start_vertex, dj.asked)
              /\ PathCost(dj.path, WeightOf(dj.given)) = dj.labels[dj.asked].distance
       ELSE dj.path = <<>>
  /\ dj.graph = dj.given

\* the label of b was lowered from the weight of the arc s -> b to the cost
\* of the path through a, which build_path returns
C20_Witness ==
  /\ dj.phase = "path" /\ dj.asked = "b"
  /\ <<"s", "b">> \in ArcsOf(dj.given) /\ dj.given["s"]["b"] = 2
  /\ dj.path = <<"s", "a", "b">>
  /\ dj.labels["b"].distance = 1

\* the path build_path(vertex) returns when list(set(...)) gives the vertices
\* of the graph in the order given
PathUnderOrder(graph, start_vertex, order, vertex) ==
  build_path(dijkstra_loop(graph, order,
                           initial_labels(vertices_of(graph), start_vertex), {}),
             start_vertex, vertex)

\* C21: for a fixed graph, start vertex and destination, build_path returns
\* the same path whatever the order in which list(set(...)) of
\* Dijkstra.__init__ gives the vertices.
C21_TiesBrokenDeterministically ==
  dj.phase = "path" =>
    \A order \in Orders(vertices_of(dj.graph)) :
       PathUnderOrder(dj.graph, dj.start_vertex, order, dj.asked) = dj.path

\* C22: load_graph_from_csv of the file save_graph_to_csv wrote gives a graph
\* on which Dijkstra, from the start vertex and for every destination,
\* returns the path it returns on the graph in memory (for the same order
\* of the vertex list); it raises KeyError only if it does so in memory.
C22_CsvRoundTripSamePaths ==
  /\ dj.phase = "KeyError" => dj.start_vertex \notin vertices_of(dj.memory)
  /\ dj.phase = "path" =>
       /\ vertices_of(dj.graph) = vertices_of(dj.memory)
       /\ dj.start_vertex \in vertices_of(dj.memory)
       /\ dj.path = PathUnderOrder(dj.memory, dj.start_vertex, dj.vertices, dj.asked)

\* the file holds "10" for the arc s -> b and "5" for the arcs s -> a and
\* a -> b; on the graph loaded the label of b is 10 and the path to b is the
\* arc s -> b, as in memory
C22_Witness ==
  /\ dj.phase = "path" /\ dj.asked = "b"
  /\ \A row \in {[From |-> "s", To |-> "b", AvgTime |-> <<"1", "0">>],
                  [From |-> "s", To |-> "a", AvgTime |-> <<"5">>],
                  [From |-> "a", To |-> "b", AvgTime |-> <<"5">>]} :
        \E i \in 1..Len(dj.file) : dj.file[i] = row
  /\ dj.graph = dj.memory
  /\ dj.path = <<"s", "b">>
  /\ dj.labels["b"].distance = 10

\* an id that is empty or starts with ":"
PseudoSegment(id) == id = <<>> \/ id[1] = ":"

\* C24: no graph held in edge_graph_cache has a pseudo-segment, as a node
\* or as an endpoint of an arc, although the simulator reports one with a
\* lane and a link.
C24_NoPseudoSegmentInGraph ==
  \A k \in DOMAIN edge_graph_cache :
     /\ \A n \in edge_graph_cache[k].nodes : ~PseudoSegment(n)
     /\ \A a \in edge_graph_cache[k].arcs :
           ~PseudoSegment(a[1]) /\ ~PseudoSegment(a[2])

\* the simulator reports the pseudo-segment :j, whose lane links to a lane
\* of b, and the graph built for the class passenger has b and arcs
C24_Witness ==
  /\ eJ \in EdgeIDList /\ PseudoSegment(eJ)
  /\ \E l \in NetLanes : l.edge = eJ /\ LaneId(eB, "0") \in l.links
  /\ "passenger" \in DOMAIN edge_graph_cache
  /\ eB \in edge_graph_cache["passenger"].nodes
  /\ edge_graph_cache["passenger"].arcs # {}

\* C25: in Final2 invalid_count counts the INVALID outcomes of an agent
\* since its latest cooldown or commit.  A planner call that ends INVALID is
\* the first or the second of them; the second starts a cooldown until
\* t + COOLDOWN_SECONDS and sets the count back to 0, so at most
\* INVALID_THRESHOLD planner calls lie between two cooldowns; and no planner
\* call is made for an agent at a time before its cooldown_until.
C25_NoWastedReplanning ==
  (prog = "Final2" /\ Evaluated) =>
     /\ (ev.planned /\ IsInvalid) =>
           /\ ev.pre.ic + 1 <= INVALID_THRESHOLD
           /\ IF ev.pre.ic + 1 = INVALID_THRESHOLD
                THEN /\ cooldown_until[ev.vid] = ev.t + COOLDOWN_SECONDS
                     /\ invalid_count[ev.vid] = 0
              ELSE /\ cooldown_until[ev.vid] = ev.pre.cu
                   /\ invalid_count[ev.vid] = ev.pre.ic + 1
     /\ ev.t < ev.pre.cu => ~ev.planned

\* the second planner call ends INVALID, as the first did AttemptGap seconds
\* before, and starts a cooldown
C25_Witness ==
  /\ prog = "Final2" /\ Evaluated /\ ev.planned /\ IsInvalid
  /\ ev.prev = "INVALID" /\ ev.pre.ic = 1 /\ ev.pre.cu = 0
  /\ cooldown_until[ev.vid] = ev.t + COOLDOWN_SECONDS

----------------------------------------------------------------------------
(* Properties of the trip statistics                                        *)
\* the agents of the latest tick's arrivals that are recorded
Recorded(st) ==
  SelectSeq(st.arrived, LAMBDA v : /\ v \notin st.stuck_excluded
                                   /\ v \in DOMAIN st.veh_depart_time)

\* C23: in Final2 a flag in stuck_excluded is never taken back and is set in
\* every tick that reads a waiting time >= STUCK_EXCLUDE_WAIT; every arrival
\* adds 1 to arrived_total; a flagged agent adds no entry to
\* finished_travel_times and finished_waiting_times, every other arrived
\* agent with a depart time adds one entry to each (now - depart time to the
\* travel times).
C23_StuckExcludedFromAverages ==
  [][stats' # stats =>
       /\ stats.stuck_excluded \subseteq stats'.stuck_excluded
       /\ \A v \in DOMAIN stats'.read :
             (/\ stats'.read[v].acc.kind = "num"
              /\ stats'.read[v].wait.kind = "num"
              /\ RLeq(STUCK_EXCLUDE_WAIT, stats'.read[v].wait.v))
               => v \in stats'.stuck_excluded
       /\ stats'.arrived_total = stats.arrived_total + Len(stats'.arrived)
       /\ Len(stats'.finished_travel_times)
             = Len(stats.finished_travel_times) + Len(Recorded(stats'))
       /\ Len(stats'.finished_waiting_times)
             = Len(stats.finished_waiting_times) + Len(Recorded(stats'))
       /\ \A i \in 1..Len(Recorded(stats')) :
             stats'.finished_travel_times[Len(stats.finished_travel_times) + i]
               = t' - stats'.veh_depart_time[Recorded(stats')[i]]]_vars

\* v1, flagged, and v2, not flagged, arrive in one tick: both are counted,
\* only v2 is recorded
C23_Witness ==
  /\ stats.arrived = <<"v1", "v2">>
  /\ stats.stuck_excluded = {"v1"}
  /\ {"v1", "v2"} \subseteq DOMAIN stats.veh_depart_time
  /\ stats.arrived_total = 2
  /\ stats.finished_travel_times = <<t - stats.veh_depart_time["v2"]>>
  /\ stats.finished_waiting_times = <<<<3, 1>>>>

----------------------------------------------------------------------------
(* Properties of the invalid count and the cooldown of Final2.py            *)
\* C29: in Final2, between evaluations the invalid_count of every agent is
\* 0 or 1: never negative, and never seen at or above INVALID_THRESHOLD.
C29_InvalidCountBelowThreshold ==
  prog = "Final2" =>
    \A v \in Agents :
       invalid_count[v] \in {0, 1} /\ invalid_count[v] < INVALID_THRESHOLD

\* an agent whose count was 1 is found on a segment its class graph does not
\* have: the count reaches the threshold and is back at 0 when the evaluation
\* ends
C29_Witness ==
  /\ prog = "Final2" /\ Evaluated /\ ev.outcome = "INVALID_GRAPH"
  /\ ev.pre.ic = 1
  /\ invalid_count[ev.vid] = 0

\* C30: in Final2 a cooldown always expires: at every time t of the loop
\* cooldown_until <= t + COOLDOWN_SECONDS for every agent, and an agent
\* evaluated at a time that has reached its cooldown_until is not skipped
\* for cooldown: an agent put in cooldown at t0 passes the cooldown test at
\* the first tick with time >= t0 + COOLDOWN_SECONDS in which it is
\* evaluated.
C30_CooldownExpires ==
  prog = "Final2" =>
    /\ \A v \in Agents : cooldown_until[v] <= t + COOLDOWN_SECONDS
    /\ (Evaluated /\ ev.t >= ev.pre.cu) => ev.outcome # "SKIP_COOLDOWN"

\* an agent whose cooldown ends at the very time of the tick is evaluated
\* and the planner is called for it
C30_Witness ==
  /\ prog = "Final2" /\ Evaluated
  /\ ev.pre.cu > 0 /\ ev.t = ev.pre.cu
  /\ ev.planned

\* how many times the latest evaluation issued cmd
TimesIssued(cmd) == Cardinality({i \in 1..Len(ev.cmds) : ev.cmds[i] = cmd})

----------------------------------------------------------------------------
(* Properties of the class-graph cache                                      *)
\* the class a cache key stands for
ClassOfKey(k) == IF k = "_ANY_" THEN "" ELSE k
\* every graph held in the cache is the graph the simulator would yield now
CacheCurrent ==
  \A k \in DOMAIN edge_graph_cache :
     edge_graph_cache[k] = GraphNow[closed][ClassOfKey(k)]
\* the tick of the periodic refresh: the one periodic refresh of the
\* programs is the signal refresh of Final2.py, every TLS_REFRESH_PERIOD
\* seconds
RefreshTick == ticks > 0 /\ t % TLS_REFRESH_PERIOD = 0

\* C27 as claimed: after a periodic refresh tick every class graph held in
\* edge_graph_cache is the graph of the simulator's current lanes, links and
\* class permissions.
C27_CacheRebuiltOnRefreshTick == RefreshTick => CacheCurrent

----------------------------------------------------------------------------
(* Properties of the travel-time graph of run_dijkstra.py                   *)
JunctionIds == {e.from : e \in RunNet} \cup {e.to : e \in RunNet}
\* every source key and every target key of the graph is a junction id
JunctionKeysOnly(graph) ==
  \A u \in DOMAIN graph :
     u \in JunctionIds /\ \A v \in DOMAIN graph[u] : v \in JunctionIds

\* C28 as claimed: within a run of run_dijkstra.py, after the default
\* initialisation and after every update_travel_stats, every source key and
\* every target key of junction_graph, and of the graph passed to Dijkstra,
\* is a junction id.
C28_SingleGranularity ==
  run.phase = "loop" =>
    JunctionKeysOnly(run.junction_graph) /\ JunctionKeysOnly(run.handed)

----------------------------------------------------------------------------
(* Properties of the weight refresh of FinalnoTLS.py                        *)
\* the segments that have a window after the step
SampledInTick == DOMAIN EDGE_BUF'
\* window new is window old after one push
OnePush(old, new) == new # <<>> /\ new = deque_append(old, new[Len(new)])

\* C31 as claimed: in FinalnoTLS a tick that refreshes the weights pushes
\* exactly one new sample into the window of each segment, however many
\* classes are active in the tick: expected_speed is called once for each
\* segment.
C31_OneSamplePerSegmentPerTick ==
  [][(ticks' = ticks + 1 /\ es'.n > es.n) =>
       /\ \A e \in SampledInTick :
             /\ OnePush(WindowsOf(EDGE_BUF, e).occ, WindowsOf(EDGE_BUF', e).occ)
             /\ OnePush(WindowsOf(EDGE_BUF, e).speed, WindowsOf(EDGE_BUF', e).speed)
       /\ es'.n = es.n + Cardinality(SampledInTick)]_vars

----------------------------------------------------------------------------
(* Termination of tls_delay_seconds                                         *)
ScanEnded == frame.pc \in {"returned", "raised"}

\* C32: every call of tls_delay_seconds ends, by a return or by the
\* exception of a phase index the cached program does not have: for every
\* cached program (phases of no duration, programs never green at the index
\* and programs of cycle 0 included) and every current phase the scan loop
\* makes finitely many iterations.
C32_ScanTerminates == <>ScanEnded

\* the scan of a program that is never green and has a phase of no
\* duration ends after four iterations, with the result of tls_delay_seconds
C32_Witness ==
  /\ frame.pc = "returned"
  /\ frame.defs["J"].phases = ProgramZeroPhase
  /\ frame.probe.ok /\ frame.probe.cur = 1
  /\ frame.iters = 4
  /\ ~RLess(frame.scanned, TLS_LOOKAHEAD_LIMIT)
  /\ frame.result = tls_delay_seconds("J", frame.sig_index, frame.defs, frame.probe)

====
